---- MODULE Spec2Model ----
(***************************************************************************)
(* Model of the voxel-scene document (src/services/gemini.ts,             *)
(* VOXEL_TEMPLATE: init, the injected instruction text, the message        *)
(* listener) and of the text utilities of src/utils/html.ts.               *)
(*                                                                         *)
(* Units.  Real numbers of the program are scaled integers:                *)
(*   sunlight            thousandths (0.45 is 450)                         *)
(*   godrays             hundredths  (0.5 is 50)                           *)
(*   light intensity     tenths      (1.2 is 12)                           *)
(*   positions, heights  1/10000 of a block (120 is 1200000)               *)
(*   opacity             thousandths                                       *)
(*   camera literals     millionths; the zoom factor in quarters           *)
(* Strings that the program inspects character by character (block types,  *)
(* texts handed to the html utilities) are sequences of tokens.            *)
(***************************************************************************)
EXTENDS Integers, Sequences, FiniteSets, TLC

VARIABLES
    pc,          \* position of the document's script: start, aiCode, fallback, build, running, failed
                 \* (recipe, recipeDone where generateRecipeBook is run on its own)
    gwBody,      \* the function generateWorld the injected text declares, if it declares one
    gwRuns,      \* history: how many times generateWorld was invoked
    textOps,     \* history: statements of the injected text executed so far
    placedByText,\* history: addBlock calls made by the injected text (fallback excluded)
    errStage,    \* history: which part of init threw (none, setup, aiCode, build)
    voxels,      \* const voxels = []
    meshes,      \* number of voxel meshes added to the scene's root group
    animating,   \* number of draw loops started by animate()
    sunLight,    \* let sunLight (not set until init creates it)
    moonLight,   \* let moonLight
    godRayMesh,  \* let godRayMesh
    sky,         \* scene.background / scene.fog.color
    errBox,      \* #error-box: its style.display and innerHTML
    panel,       \* #mc-build-instructions: its style.display
    toggles,     \* history: toggleInstructions messages handled
    lastEnv,     \* history: the last environment message handled, if any
    raised,      \* whether the last run of the message listener raised an error
    matCache,    \* const matCache = {}: the types it has a material for, in order of creation
    matFaces,    \* the materials of matCache, in the same order: the texture of each face
    meshMats,    \* the material handle of each mesh of the root group (an index into matCache)
    syntheses,   \* history: materials created by getBlockMaterial
    camera,      \* camera.position and controls.target
    listSummary, \* #list-summary: its items
    listLayers,  \* #list-layers: its groups
    text,        \* html utilities: the input text
    out,         \* html utilities: the result of the function applied
    fn,          \* html utilities: which function produced out (none at first)
    twice,       \* html utilities: the function applied again, to out
    factor,      \* html utilities: zoomCamera's zoomFactor, in quarters (0 until it is called)
    host,        \* App: imageData, status, errorMsg, voxelCode, viewMode (errors: history)
    gen,         \* the call of generateVoxelScene under way: its position, aiCode, its outcome
                 \* (parts: history, the text fragments of the stream in order of arrival)
    frames,      \* the documents alive in the viewer's iframe, each with its draw loops
    docsMade,    \* history: documents constructed in the iframe so far
    tasks        \* App: what is pending (example fetches, file readers, image generations,
                 \* timers) and histories (inputs, environment messages posted and lost)

buildVars == <<matCache, matFaces, meshMats, syntheses, camera, listSummary, listLayers>>
docVars == <<pc, gwBody, gwRuns, textOps, placedByText, errStage, voxels, meshes,
             animating, sunLight, moonLight, godRayMesh, sky, errBox, panel,
             toggles, lastEnv, raised, buildVars>>
htmlVars == <<text, out, fn, twice, factor>>
hostVars == <<host, gen, frames, docsMade, tasks>>
vars == <<docVars, htmlVars, hostVars>>

\* A missing or empty type argument of addBlock.
NoType == <<>>

\* ------------------------------------------------------------- bounds
MaxText == 1
MaxToggles == 2
MaxLen == 4
MaxCalls == 2
MaxVoxels == 3
MaxRuns == 2
MaxChunks == 2
MaxDocs == 3
MaxInputs == 3

\* ------------------------------------------------------- block types
\* String.prototype.toLowerCase on one character of the alphabet used here.
LowerChar(c) ==
    CASE c = "B" -> "b" [] c = "D" -> "d" [] c = "L" -> "l" [] c = "O" -> "o"
      [] c = "S" -> "s" [] OTHER -> c

\* type.toLowerCase().replace(/ /g, '_')
NormalizeKeepsSpaces(type) == [i \in 1..Len(type) |-> LowerChar(type[i])]
Normalize(type) ==
    [i \in 1..Len(type) |-> IF type[i] = " " THEN "_" ELSE LowerChar(type[i])]

Stone == <<"s", "t", "o", "n", "e">>
Dirt == <<"d", "i", "r", "t">>
Bedrock == <<"b", "e", "d", "r", "o", "c", "k">>
PlanksOak == <<"p", "l", "a", "n", "k", "s", "_", "o", "a", "k">>
RawOakLog == <<"L", "o", "g", " ", "O", "a", "k">>
Grass == <<"g", "r", "a", "s", "s">>
LogOak == <<"l", "o", "g", "_", "o", "a", "k">>
CherryLog == <<"c", "h", "e", "r", "r", "y", "_", "l", "o", "g">>
Constructor == <<"c", "o", "n", "s", "t", "r", "u", "c", "t", "o", "r">>
LogSpruce == <<"l", "o", "g", "_", "s", "p", "r", "u", "c", "e">>

\* function addBlock(x, y, z, type): (type || 'stone') normalised, then pushed.
addBlockLastWins(vs, x, y, z, type) ==
    Append(SelectSeq(vs, LAMBDA v : <<v.x, v.y, v.z>> # <<x, y, z>>),
           [x |-> x, y |-> y, z |-> z, type |-> Normalize(IF type = NoType THEN Stone ELSE type)])
addBlock(vs, x, y, z, type) ==
    Append(vs, [x |-> x, y |-> y, z |-> z,
                type |-> Normalize(IF type = NoType THEN Stone ELSE type)])

\* ------------------------------------------------ the injected text
\* The addBlock calls the injected text may make (arguments as written).
BlockCalls ==
    { [op |-> "addBlock", x |-> 0, y |-> 0, z |-> 0, type |-> Stone],
      [op |-> "addBlock", x |-> -2, y |-> -1, z |-> 1, type |-> RawOakLog],
      [op |-> "addBlock", x |-> 2, y |-> 3, z |-> -1, type |-> NoType] }

\* What a throw statement may throw: an Error with a message, or null.
Thrown == { [kind |-> "Error", message |-> "boom"], [kind |-> "null", message |-> ""] }
ThrowOps == { [op |-> "throw", val |-> v] : v \in Thrown }
CallOp == [op |-> "generateWorld"]
TextOps == BlockCalls \cup ThrowOps \cup {CallOp}

\* function generateWorld() { ... } as the text may declare it (declarations
\* are hoisted: the function exists from the first statement on), or not at all.
NoFunction == [defined |-> FALSE, body |-> <<>>]
GWBodies ==
    { NoFunction,
      [defined |-> TRUE, body |-> <<>>],
      [defined |-> TRUE,
       body |-> << [op |-> "addBlock", x |-> 0, y |-> 0, z |-> 0, type |-> Stone] >>],
      [defined |-> TRUE,
       body |-> << [op |-> "addBlock", x |-> 0, y |-> 1, z |-> 0, type |-> Dirt],
                   [op |-> "throw", val |-> [kind |-> "Error", message |-> "boom"]] >>] }

NoThrow == [kind |-> "none", message |-> ""]

\* Runs the statements of a function body in order until one throws.
RECURSIVE RunBody(_, _)
RunBody(vs, body) ==
    IF body = <<>> THEN [voxels |-> vs, thrown |-> NoThrow]
    ELSE LET s == Head(body) IN
         IF s.op = "throw" THEN [voxels |-> vs, thrown |-> s.val]
         ELSE RunBody(addBlock(vs, s.x, s.y, s.z, s.type), Tail(body))

\* ------------------------------------------- Math.sin / Math.cos
\* Fixed point, 1/10000: sin of r thousandths of a turn, 0 <= r <= 250, by the
\* Taylor series of sin at x = 2*pi*r/1000.
TwoPi == 62832
SinQuarter(r) ==
    LET x == (r * TwoPi) \div 1000
        x2 == (x * x) \div 10000
        t3 == ((x * x2) \div 10000) \div 6
        t5 == ((t3 * x2) \div 10000) \div 20
        t7 == ((t5 * x2) \div 10000) \div 42
        t9 == ((t7 * x2) \div 10000) \div 72
    IN  x - t3 + t5 - t7 + t9

\* Math.sin of a thousandths of a turn (any integer a), in 1/10000.
SinTurn(a) ==
    LET m == a % 1000 IN
    IF m <= 250 THEN SinQuarter(m)
    ELSE IF m <= 500 THEN SinQuarter(500 - m)
    ELSE IF m <= 750 THEN -SinQuarter(m - 500)
    ELSE -SinQuarter(1000 - m)

\* Math.cos(angle) = sin(angle + a quarter turn)
CosTurn(a) == SinTurn(a + 250)

\* ------------------------------------------- the environment handler
radius == 120

\* const angle = (time * Math.PI * 2) - Math.PI/2, in thousandths of a turn
Angle(time) == time - 250

\* const sx = Math.cos(angle) * radius
SunX(time) == CosTurn(Angle(time)) * radius

\* const sy = Math.sin(angle) * radius.  In IEEE double arithmetic the angle
\* of time 0.75 is the double nearest to pi, whose sine is 1.22e-16: sy is a
\* tiny positive number there, not 0 (at time 0.25 the angle and sy are 0).
SunY(time) ==
    IF Angle(time) % 1000 = 500 THEN 1 ELSE SinTurn(Angle(time)) * radius

\* const isDay = sy > -10
IsDay(time) == SunY(time) > -10 * 10000

\* sunLight.intensity = isDay ? 1.2 : 0;  moonLight.intensity = isDay ? 0 : 0.5
SunIntensity(time) == IF IsDay(time) THEN 12 ELSE 0
MoonIntensityAlways(time) == 5
MoonIntensity(time) == IF IsDay(time) THEN 0 ELSE 5

\* The if / else-if chain choosing the sky colour; each branch is named by
\* its comment in the source and sets one HSL triple (hundredths).
SkyBandNoSunset(time) ==
    IF time < 100 THEN "dawn"
    ELSE IF time < 400 THEN "day"
    ELSE IF time < 900 THEN "night"
    ELSE "sunrise"
SkyBand(time) ==
    IF time < 100 THEN "dawn"
    ELSE IF time < 400 THEN "day"
    ELSE IF time < 550 THEN "sunset"
    ELSE IF time < 900 THEN "night"
    ELSE "sunrise"

SkyHSL(band) ==
    CASE band = "dawn" -> <<5, 80, 50>>
      [] band = "day" -> <<60, 70, 80>>
      [] band = "sunset" -> <<85, 60, 60>>
      [] band = "night" -> <<65, 50, 5>>
      [] OTHER -> <<5, 80, 50>>

\* The sunlight and godrays values the host's sliders may send.
Sunlights == {0, 100, 236, 237, 250, 450, 500, 550, 750, 764, 1000}
Godrays == {0, 100}

\* ------------------------------------------------------ scene objects
NotSet == [set |-> FALSE, intensity |-> 0, pos |-> <<0, 0, 0>>]
NoMesh == [set |-> FALSE, pos |-> <<0, 0, 0>>, visible |-> FALSE, opacity |-> 0]
NoScene == [set |-> FALSE, band |-> "none", hsl |-> <<0, 0, 0>>]
NoEnv == [seen |-> FALSE, sunlight |-> 0, godrays |-> 0]

Blocks(n) == n * 10000

\* sunLight = new THREE.DirectionalLight(0xffffff, 1.2); position.set(50, 80, 30)
InitialSun == [set |-> TRUE, intensity |-> 12, pos |-> <<Blocks(50), Blocks(80), Blocks(30)>>]

\* moonLight = new THREE.DirectionalLight(0x6688aa, 0.5); position.set(-50, -80, -30)
InitialMoon == [set |-> TRUE, intensity |-> 5, pos |-> <<Blocks(-50), Blocks(-80), Blocks(-30)>>]

\* godRayMesh: opacity 0.0, at the sun's position (a new Mesh is visible)
InitialGodRay == [set |-> TRUE, pos |-> InitialSun.pos, visible |-> TRUE, opacity |-> 0]

\* scene.background = new THREE.Color(0x9AD3FF), the fog alike (as HSL, hundredths)
InitialSky == [set |-> TRUE, band |-> "initial", hsl |-> <<57, 100, 80>>]

\* camera = new THREE.PerspectiveCamera(...): at the origin, looking at it
NoCamera == [set |-> FALSE, pos |-> <<0, 0, 0>>, target |-> <<0, 0, 0>>]
InitialCamera == [set |-> TRUE, pos |-> <<0, 0, 0>>, target |-> <<0, 0, 0>>]

\* ---------------------------------------------------------- error box
HiddenErrBox == [display |-> "none", title |-> "", message |-> ""]

\* window.onerror: shows the box with the script error.
OnError(msg) == [display |-> "block", title |-> "Script Error", message |-> msg]

\* The catch block of init.  errBox.style.display = 'block' comes first; then
\* err.message is read: of a thrown null that read raises a TypeError, which
\* leaves init() uncaught and reaches window.onerror (assigned before init()).
CatchShowsNothing(thrown) == HiddenErrBox
Catch(thrown) ==
    IF thrown.kind = "null" THEN OnError("TypeError")
    ELSE [display |-> "block", title |-> "Render Error", message |-> thrown.message]

\* ------------------------------------------------------------- init
\* Lines up to generateSakuraClearing(): the scene, the renderer (which throws
\* where WebGL is not available), the lights, the god-ray mesh.
InitScene ==
    /\ pc = "start"
    /\ sky' = InitialSky
    /\ \E webgl \in BOOLEAN :
         IF webgl
         THEN /\ sunLight' = InitialSun
              /\ moonLight' = InitialMoon
              /\ godRayMesh' = InitialGodRay
              /\ pc' = "aiCode"
              /\ UNCHANGED <<errBox, errStage>>
         ELSE /\ errBox' = Catch([kind |-> "Error", message |-> "WebGL"])
              /\ errStage' = "setup"
              /\ pc' = "failed"
              /\ UNCHANGED <<sunLight, moonLight, godRayMesh>>
    /\ camera' = InitialCamera
    /\ UNCHANGED <<gwBody, gwRuns, textOps, placedByText, voxels, meshes, animating,
                   panel, toggles, lastEnv, raised, htmlVars, hostVars>>
    /\ UNCHANGED <<matCache, matFaces, meshMats, syntheses, listSummary, listLayers>>

\* What one statement of the injected text does to the voxel list, and what
\* it throws: an addBlock call, a throw, or a call of generateWorld() (a
\* ReferenceError where the text declares no such function).
Statement(vs, op) ==
    IF op.op = "addBlock"
    THEN [voxels |-> addBlock(vs, op.x, op.y, op.z, op.type), thrown |-> NoThrow]
    ELSE IF op.op = "throw" THEN [voxels |-> vs, thrown |-> op.val]
    ELSE IF gwBody.defined THEN RunBody(vs, gwBody.body)
    ELSE [voxels |-> vs, thrown |-> [kind |-> "Error", message |-> "ReferenceError"]]

\* ${aiCode}: the next statement of the injected text runs.
ExecStatement ==
    /\ pc = "aiCode"
    /\ textOps < MaxText
    /\ \E op \in TextOps :
         LET r == Statement(voxels, op) IN
         /\ voxels' = r.voxels
         /\ placedByText' = Len(r.voxels)
         /\ gwRuns' = IF op.op = "generateWorld" /\ gwBody.defined THEN gwRuns + 1 ELSE gwRuns
         /\ textOps' = textOps + 1
         /\ IF r.thrown.kind = "none"
            THEN UNCHANGED <<pc, errBox, errStage>>
            ELSE /\ errBox' = Catch(r.thrown)
                 /\ errStage' = "aiCode"
                 /\ pc' = "failed"
    /\ UNCHANGED <<gwBody, meshes, animating, sunLight, moonLight, godRayMesh, sky,
                   panel, toggles, lastEnv, raised, buildVars, htmlVars, hostVars>>

\* if (typeof generateWorld === 'function') generateWorld();
CallsGenerateWorld == gwBody.defined

\* The text has ended: the closure's last statement, then the closure returns.
EndOfText ==
    /\ pc = "aiCode"
    /\ LET r == IF CallsGenerateWorld THEN RunBody(voxels, gwBody.body)
                ELSE [voxels |-> voxels, thrown |-> NoThrow] IN
         /\ voxels' = r.voxels
         /\ placedByText' = Len(r.voxels)
         /\ gwRuns' = IF CallsGenerateWorld THEN gwRuns + 1 ELSE gwRuns
         /\ IF r.thrown.kind = "none"
            THEN /\ pc' = "fallback"
                 /\ UNCHANGED <<errBox, errStage>>
            ELSE /\ errBox' = Catch(r.thrown)
                 /\ errStage' = "aiCode"
                 /\ pc' = "failed"
    /\ UNCHANGED <<gwBody, textOps, meshes, animating, sunLight, moonLight, godRayMesh,
                   sky, panel, toggles, lastEnv, raised, buildVars, htmlVars, hostVars>>

\* for x in -2..2, for z in -2..2: addBlock(x, 0, z, 'bedrock')
RECURSIVE Platform(_, _)
Platform(vs, i) ==
    IF i = 25 THEN vs
    ELSE Platform(addBlock(vs, (i \div 5) - 2, 0, (i % 5) - 2, Bedrock), i + 1)

\* The fallback structure: the platform, then two planks above the origin.
FallbackWithoutMarker(vs) == Platform(vs, 0)
FallbackVoxels(vs) ==
    addBlock(addBlock(Platform(vs, 0), 0, 1, 0, PlanksOak), 0, 2, 0, PlanksOak)

\* if (voxels.length === 0) { ... }
Fallback ==
    /\ pc = "fallback"
    /\ voxels' = IF Len(voxels) = 0 THEN FallbackVoxels(voxels) ELSE voxels
    /\ pc' = "build"
    /\ UNCHANGED <<gwBody, gwRuns, textOps, placedByText, errStage, meshes, animating,
                   sunLight, moonLight, godRayMesh, sky, errBox, panel, toggles,
                   lastEnv, raised, buildVars, htmlVars, hostVars>>

\* ------------------------------------------- materials and meshes
\* matCache, counts and layers[y] are plain objects: reading a key they do not
\* own finds what Object.prototype has under that name.  Of the names a
\* normalised type can be, constructor is one (its value is a function).
Inherited(key) == key = Constructor

\* String.prototype.includes
Includes(type, part) ==
    \E i \in 0..(Len(type) - Len(part)) : SubSeq(type, i + 1, i + Len(part)) = part

\* function createBlockTexture(type, side = 'all'): a new texture; what is
\* drawn on it is decided by the chain of tests on type and, for grass and
\* the types that include log, on side.
createBlockTexture(type, side) ==
    [type |-> type, side |-> side,
     drawn |-> IF type = Grass
               THEN (IF side = "top" THEN "grass" ELSE IF side = "bottom" THEN "dirt"
                     ELSE "dirt under grass")
               ELSE IF type = Dirt THEN "dirt"
               ELSE IF type = Stone THEN "stone"
               ELSE IF Includes(type, <<"p", "l", "a", "n", "k", "s">>) THEN "boards"
               ELSE IF Includes(type, <<"l", "o", "g">>)
               THEN (IF side \in {"top", "bottom"} THEN "rings" ELSE "streaks")
               ELSE "plain"]

\* The material getBlockMaterial makes for a type it has none for: an array
\* of six materials (the faces +x, -x, +y, -y, +z, -z of the box) for grass,
\* log_oak and cherry_log, one material with one texture for any other type.
NewMaterial(type) ==
    IF type = Grass
    THEN LET top == createBlockTexture(Grass, "top")
             side == createBlockTexture(Grass, "side")
             bottom == createBlockTexture(Grass, "bottom")
         IN  [array |-> TRUE, faces |-> <<side, side, top, bottom, side, side>>]
    ELSE IF type = LogOak \/ type = CherryLog
    THEN LET top == createBlockTexture(type, "top")
             side == createBlockTexture(type, "side")
         IN  [array |-> TRUE, faces |-> <<side, side, top, top, side, side>>]
    ELSE [array |-> FALSE, faces |-> [k \in 1..6 |-> createBlockTexture(type, "all")]]

\* The position of type among the types the cache owns, 0 if it owns none.
CacheIndex(cache, type) ==
    IF \E k \in 1..Len(cache) : cache[k] = type
    THEN CHOOSE k \in 1..Len(cache) : cache[k] = type
    ELSE 0

\* function getBlockMaterial(type): the cached material if matCache[type] is
\* truthy (handle k: the k-th material created; handle 0: the inherited
\* function, no material at all), else a new material, stored under type.
getBlockMaterialUncached(cache, type) ==
    [cache |-> Append(cache, type), handle |-> Len(cache) + 1, created |-> TRUE]
getBlockMaterial(cache, type) ==
    IF CacheIndex(cache, type) # 0
    THEN [cache |-> cache, handle |-> CacheIndex(cache, type), created |-> FALSE]
    ELSE IF Inherited(type) THEN [cache |-> cache, handle |-> 0, created |-> FALSE]
    ELSE [cache |-> Append(cache, type), handle |-> Len(cache) + 1, created |-> TRUE]

\* voxels.forEach(v => { const mat = getBlockMaterial(v.type); ... root.add(mesh) })
\* acc: the cache, the material of each mesh added so far, the materials created.
RECURSIVE BuildMeshes(_, _)
BuildMeshes(vs, acc) ==
    IF Len(acc.mats) = Len(vs) THEN acc
    ELSE LET m == getBlockMaterial(acc.cache, vs[Len(acc.mats) + 1].type) IN
         BuildMeshes(vs, [cache |-> m.cache,
                          mats |-> Append(acc.mats, m.handle),
                          created |-> IF m.created THEN acc.created + 1 ELSE acc.created])

\* ---------------------------------------------------------- the camera
\* minX .. maxZ as the loop leaves them (the list is not empty).
Least(vs, axis) ==
    CHOOSE m \in { vs[i][axis] : i \in 1..Len(vs) } : \A i \in 1..Len(vs) : m <= vs[i][axis]
Greatest(vs, axis) ==
    CHOOSE m \in { vs[i][axis] : i \in 1..Len(vs) } : \A i \in 1..Len(vs) : m >= vs[i][axis]

\* (min + max) / 2
Centre(vs, axis) == Blocks(Least(vs, axis) + Greatest(vs, axis)) \div 2

\* Math.max(maxX-minX, maxY-minY, maxZ-minZ)
Span(vs, axis) == Greatest(vs, axis) - Least(vs, axis)
SizeXOnly(vs) == Span(vs, "x")
Size(vs) ==
    LET spans == {Span(vs, "x"), Span(vs, "y"), Span(vs, "z")}
    IN  CHOOSE m \in spans : \A n \in spans : m >= n

\* if (voxels.length > 0) { controls.target.set(...); camera.position.set(...) }
\* else { camera.position.set(20,20,20); controls.target.set(0,0,0) }
FrameCamera(vs) ==
    IF Len(vs) > 0
    THEN [set |-> TRUE,
          target |-> <<Centre(vs, "x"), Centre(vs, "y"), Centre(vs, "z")>>,
          pos |-> <<Centre(vs, "x") + Blocks(Size(vs) + 15),
                    Centre(vs, "y") + Blocks(Size(vs) + 10),
                    Centre(vs, "z") + Blocks(Size(vs) + 15)>>]
    ELSE [set |-> TRUE, target |-> <<0, 0, 0>>,
          pos |-> <<Blocks(20), Blocks(20), Blocks(20)>>]

\* ------------------------------------------------ generateRecipeBook
\* A value of counts: the number n, or (not num) the text of the inherited
\* function followed by n characters 1, which is what function + 1 gives.
\* obj[key] || 0, for an object given by its own entries, in insertion order:
\* an own entry, else the inherited function if there is one, else 0.
Read(entries, key) ==
    IF \E k \in 1..Len(entries) : entries[k].type = key
    THEN entries[CHOOSE k \in 1..Len(entries) : entries[k].type = key].count
    ELSE [num |-> ~Inherited(key), n |-> 0]

\* obj[key] = (obj[key] || 0) + 1
Bump(entries, key) ==
    LET c == [num |-> Read(entries, key).num, n |-> Read(entries, key).n + 1] IN
    IF \E k \in 1..Len(entries) : entries[k].type = key
    THEN [k \in 1..Len(entries) |->
             IF entries[k].type = key THEN [type |-> key, count |-> c] ELSE entries[k]]
    ELSE Append(entries, [type |-> key, count |-> c])

\* voxels.forEach(v => counts[v.type] = (counts[v.type]||0)+1)
\* acc: the voxels visited so far and the entries of counts.
RECURSIVE CountsFrom(_, _)
CountsFrom(vs, acc) ==
    IF acc.done = Len(vs) THEN acc.entries
    ELSE CountsFrom(vs, [done |-> acc.done + 1,
                         entries |-> Bump(acc.entries, vs[acc.done + 1].type)])
CountsOfFirst(vs) == CountsFrom(SubSeq(vs, 1, 1), [done |-> 0, entries |-> <<>>])
Counts(vs) == CountsFrom(vs, [done |-> 0, entries |-> <<>>])

\* t.replace(/_/g, ' ')
Label(type) == [i \in 1..Len(type) |-> IF type[i] = "_" THEN " " ELSE type[i]]

\* One <li> per entry, in the order of Object.entries.
Items(entries) ==
    [k \in 1..Len(entries) |-> [label |-> Label(entries[k].type), count |-> entries[k].count]]

\* layers: its own keys in insertion order, each with its counts.
\* if(!layers[v.y]) layers[v.y] = {};  layers[v.y][v.type] = (...||0)+1
AddToLayer(ls, v) ==
    IF \E k \in 1..Len(ls) : ls[k].y = v.y
    THEN [k \in 1..Len(ls) |->
             IF ls[k].y = v.y
             THEN [y |-> v.y, counts |-> Bump(ls[k].counts, v.type)]
             ELSE ls[k]]
    ELSE Append(ls, [y |-> v.y, counts |-> Bump(<<>>, v.type)])
RECURSIVE LayersFrom(_, _)
LayersFrom(vs, acc) ==
    IF acc.done = Len(vs) THEN acc.ls
    ELSE LayersFrom(vs, [done |-> acc.done + 1, ls |-> AddToLayer(acc.ls, vs[acc.done + 1])])
Layers(vs) == LayersFrom(vs, [done |-> 0, ls |-> <<>>])

\* Object.keys(layers): the keys that are array indices (the integers from 0
\* on) in ascending order, then the other keys (-1, -2, ...) in insertion
\* order.  A key is the decimal text of an integer y and is kept as y here.
RECURSIVE IndexKeys(_, _)
IndexKeys(S, acc) ==
    IF S = {} THEN acc
    ELSE LET m == CHOOSE x \in S : \A y \in S : x <= y IN IndexKeys(S \ {m}, Append(acc, m))
ObjectKeys(ls) ==
    IndexKeys({ ls[k].y : k \in { j \in 1..Len(ls) : ls[j].y >= 0 } }, <<>>)
        \o SelectSeq([k \in 1..Len(ls) |-> ls[k].y], LAMBDA y : y < 0)

\* .sort((a,b) => parseInt(a)-parseInt(b)): a stable sort by the integer read
\* from the key (insertion of each key after the keys not greater than it).
RECURSIVE InsertKey(_, _)
InsertKey(sorted, key) ==
    IF sorted = <<>> THEN <<key>>
    ELSE IF sorted[Len(sorted)] - key <= 0 THEN Append(sorted, key)
    ELSE Append(InsertKey(SubSeq(sorted, 1, Len(sorted) - 1), key), sorted[Len(sorted)])
RECURSIVE SortKeys(_, _)
SortKeys(keys, sorted) ==
    IF keys = <<>> THEN sorted ELSE SortKeys(Tail(keys), InsertKey(sorted, Head(keys)))
UnsortedYs(ls) == ObjectKeys(ls)
sortedYs(ls) == SortKeys(ObjectKeys(ls), <<>>)

\* sortedYs.forEach((y, idx) => ...): the title "Layer idx+1 (Y=y)" and one
\* <li> per entry of layers[y].
Groups(ls) ==
    LET ys == sortedYs(ls) IN
    [i \in 1..Len(ys) |->
        [number |-> i, y |-> ys[i],
         items |-> Items(ls[CHOOSE k \in 1..Len(ls) : ls[k].y = ys[i]].counts)]]

\* One mesh per voxel, the camera, generateRecipeBook(), animate().  A step
\* of it may throw (the rendering library, the canvas), at the first mesh or
\* past the last one: then init's catch runs and animate() is not reached.
BuildScene ==
    /\ pc = "build"
    /\ \E step \in {"none", "firstMesh", "recipeBook"} :
         LET b == BuildMeshes(voxels, [cache |-> matCache, mats |-> <<>>, created |-> 0]) IN
         /\ IF step = "firstMesh"
            THEN UNCHANGED <<matCache, matFaces, meshMats, syntheses, camera>>
            ELSE /\ matCache' = b.cache
                 /\ matFaces' = [k \in 1..Len(b.cache) |-> NewMaterial(b.cache[k])]
                 /\ meshMats' = b.mats
                 /\ syntheses' = syntheses + b.created
                 /\ camera' = FrameCamera(voxels)
         /\ IF step = "none"
            THEN /\ listSummary' = Items(Counts(voxels))
                 /\ listLayers' = Groups(Layers(voxels))
                 /\ meshes' = Len(voxels)
                 /\ animating' = animating + 1
                 /\ pc' = "running"
                 /\ UNCHANGED <<errBox, errStage>>
            ELSE /\ errBox' = Catch([kind |-> "Error", message |-> "render"])
                 /\ errStage' = "build"
                 /\ pc' = "failed"
                 /\ meshes' = IF step = "firstMesh" THEN 0 ELSE Len(voxels)
                 /\ UNCHANGED <<animating, listSummary, listLayers>>
    /\ UNCHANGED <<gwBody, gwRuns, textOps, placedByText, voxels, sunLight, moonLight,
                   godRayMesh, sky, panel, toggles, lastEnv, raised, htmlVars, hostVars>>

\* ------------------------------------------------- message listener
\* e.data as the listener may receive it: an object with a type field (or
\* without one: type is undefined), a primitive such as a string (its .type
\* is undefined too), or null.
Message(data, type, sunlight, godrays) ==
    [data |-> data, type |-> type, sunlight |-> sunlight, godrays |-> godrays]
ToggleMsg == Message("object", "toggleInstructions", 0, 0)
EnvMsgs == { Message("object", "environment", t, g) : t \in Sunlights, g \in Godrays }
OtherMsgs == { Message("object", "resize", 0, 0), Message("object", "undefined", 0, 0),
               Message("string", "undefined", 0, 0), Message("null", "undefined", 0, 0) }
Messages == {ToggleMsg} \cup EnvMsgs \cup OtherMsgs

\* Reading e.data.type raises a TypeError when e.data is null.
ReadTypeRaises(d) == d.data = "null"

\* el.style.display = el.style.display === 'none' ? 'flex' : 'none'
ShowDisplay(display) == "flex"
ToggleDisplay(display) == IF display = "none" THEN "flex" ELSE "none"

\* if (e.data.type === 'environment' && sunLight)
EnvBranch(d) == d.type = "environment" /\ sunLight.set

\* godRayMesh.visible = sy > 0;  opacity = (sy > 0) ? godRayInt * 0.3 : 0
GodRayWhileDay(time, godRayInt) ==
    [set |-> TRUE,
     pos |-> <<SunX(time), SunY(time), Blocks(20)>>,
     visible |-> IsDay(time),
     opacity |-> IF IsDay(time) THEN godRayInt * 3 ELSE 0]
GodRayAfter(time, godRayInt) ==
    [set |-> TRUE,
     pos |-> <<SunX(time), SunY(time), Blocks(20)>>,
     visible |-> SunY(time) > 0,
     opacity |-> IF SunY(time) > 0 THEN godRayInt * 3 ELSE 0]

SunAfter(time) ==
    [set |-> TRUE, intensity |-> SunIntensity(time),
     pos |-> <<SunX(time), SunY(time), Blocks(20)>>]

MoonAfter(time) ==
    [set |-> TRUE, intensity |-> MoonIntensity(time),
     pos |-> <<-SunX(time), -SunY(time), Blocks(20)>>]

SkyAfter(time) == [set |-> TRUE, band |-> SkyBand(time), hsl |-> SkyHSL(SkyBand(time))]

\* window.addEventListener('message', ...): one message is handled to the end.
\* Messages are delivered once the script has run, that is after init().
OnMessage(d) ==
    /\ pc \in {"running", "failed"}
    /\ d.type = "toggleInstructions" => toggles < MaxToggles
    /\ IF ReadTypeRaises(d)
       THEN /\ raised' = TRUE
            /\ errBox' = OnError("TypeError")
            /\ UNCHANGED <<panel, toggles, sunLight, moonLight, godRayMesh, sky, lastEnv>>
       ELSE /\ raised' = FALSE
            /\ UNCHANGED errBox
            /\ IF d.type = "toggleInstructions"
               THEN /\ panel' = ToggleDisplay(panel)
                    /\ toggles' = toggles + 1
               ELSE UNCHANGED <<panel, toggles>>
            /\ IF EnvBranch(d)
               THEN /\ sunLight' = SunAfter(d.sunlight)
                    /\ moonLight' = MoonAfter(d.sunlight)
                    /\ godRayMesh' = IF godRayMesh.set
                                     THEN GodRayAfter(d.sunlight, d.godrays)
                                     ELSE godRayMesh
                    /\ sky' = SkyAfter(d.sunlight)
                    /\ lastEnv' = [seen |-> TRUE, sunlight |-> d.sunlight,
                                   godrays |-> d.godrays]
               ELSE UNCHANGED <<sunLight, moonLight, godRayMesh, sky, lastEnv>>
    /\ UNCHANGED <<pc, gwBody, gwRuns, textOps, placedByText, errStage, voxels, meshes,
                   animating, buildVars, htmlVars, hostVars>>

Receive == \E d \in Messages : OnMessage(d)

\* ------------------------------------------------- the host, at first
\* useState<string | null>(null): no document, or the document of a code.
NoCode == [null |-> TRUE, code |-> <<>>]
NoError == [thrown |-> FALSE, message |-> ""]

\* An image is known by where it came from: a file of the user (X, Y), the
\* example (A), the image generator (G).  NoImage: imageData is null.
NoImage == "none"
NoContent == [null |-> TRUE, image |-> NoImage, voxel |-> NoCode, voxelOf |-> NoImage]

\* useState(0.5) of sunlight (thousandths) and of godRays (hundredths).
InitialSunlight == 500
InitialGodRays == 50

\* The state of App after its first render (imageData = NoImage), or after
\* the file imageData has been read by processFile; no call of
\* generateVoxelScene yet.  errors, codeOf and userContent.voxelOf are
\* histories: calls of handleError, the image a code was generated from.
InitialHost(imageData) ==
    [imageData |-> imageData, status |-> "idle", errorMsg |-> "", voxelCode |-> NoCode,
     viewMode |-> "image", errors |-> 0, codeOf |-> NoImage,
     selectedTile |-> IF imageData = NoImage THEN "none" ELSE "user",
     showGenerator |-> FALSE, isViewerVisible |-> TRUE,
     userContent |-> IF imageData = NoImage THEN NoContent
                     ELSE [null |-> FALSE, image |-> imageData, voxel |-> NoCode,
                           voxelOf |-> NoImage],
     sunlight |-> InitialSunlight, godRays |-> InitialGodRays]
Idle == [pc |-> "idle", aiCode |-> <<>>, parts |-> <<>>, chunks |-> 0, calls |-> 0, runs |-> 0,
         error |-> NoError, shown |-> NoCode, image |-> NoImage, tile |-> "none",
         env |-> NoEnv]
NoTasks == [examples |-> <<>>, readers |-> <<>>, images |-> 0, timers |-> <<>>,
            inputs |-> 0, lost |-> 0, madeBy |-> "none"]

HostStart ==
    /\ host = InitialHost(NoImage)
    /\ gen = Idle
    /\ frames = <<>>
    /\ docsMade = 0
    /\ tasks = NoTasks

\* ------------------------------------------------- the document
NoText == <<>>

DocStart ==
    /\ pc = "start"
    /\ gwRuns = 0
    /\ textOps = 0
    /\ placedByText = 0
    /\ errStage = "none"
    /\ voxels = <<>>
    /\ meshes = 0
    /\ animating = 0
    /\ sunLight = NotSet
    /\ moonLight = NotSet
    /\ godRayMesh = NoMesh
    /\ sky = NoScene
    /\ errBox = HiddenErrBox
    /\ panel = "none"
    /\ toggles = 0
    /\ lastEnv = NoEnv
    /\ raised = FALSE
    /\ matCache = <<>>
    /\ matFaces = <<>>
    /\ meshMats = <<>>
    /\ syntheses = 0
    /\ camera = NoCamera
    /\ listSummary = <<>>
    /\ listLayers = <<>>

DocInit ==
    /\ gwBody \in GWBodies
    /\ DocStart

Init ==
    /\ DocInit
    /\ text = NoText
    /\ out = NoText
    /\ fn = "none"
    /\ twice = NoText
    /\ factor = 0
    /\ HostStart

Next ==
    \/ InitScene
    \/ ExecStatement
    \/ EndOfText
    \/ Fallback
    \/ BuildScene
    \/ Receive

Spec == Init /\ [][Next]_vars

\* ------------------------------------------------- init alone
\* The bodies of generateWorld used to exercise the construction of the scene:
\* larger voxel lists, layers out of order and below zero, repeated types.
Block(x, y, z, type) == [op |-> "addBlock", x |-> x, y |-> y, z |-> z, type |-> type]
BuildBodies ==
    GWBodies \cup
    { [defined |-> TRUE,
       body |-> << Block(0, 0, 0, Stone), Block(1, 0, 0, Stone), Block(0, 1, 0, Dirt) >>],
      [defined |-> TRUE,
       body |-> << Block(-2, 0, -1, Stone), Block(2, 3, 1, RawOakLog),
                   Block(0, 1, 0, NoType), Block(1, 3, 0, Grass) >>],
      [defined |-> TRUE,
       body |-> << Block(0, 2, 0, Dirt), Block(0, -1, 0, Stone), Block(5, 10, 0, Stone),
                   Block(0, -3, 7, Dirt), Block(0, 2, 0, Stone), Block(1, 0, 0, CherryLog) >>],
      [defined |-> TRUE,
       body |-> << Block(0, 0, 0, Constructor), Block(0, 1, 0, Stone),
                   Block(1, 0, 0, Constructor) >>],
      [defined |-> TRUE,
       body |-> << Block(0, 0, 0, LogSpruce), Block(0, 1, 0, LogOak),
                   Block(1, 0, 0, Grass), Block(2, 0, 0, PlanksOak) >>] }

BuildInit ==
    /\ gwBody \in BuildBodies
    /\ DocStart
    /\ text = NoText
    /\ out = NoText
    /\ fn = "none"
    /\ twice = NoText
    /\ factor = 0
    /\ HostStart

BuildNext ==
    \/ InitScene
    \/ ExecStatement
    \/ EndOfText
    \/ Fallback
    \/ BuildScene

SpecBuild == BuildInit /\ [][BuildNext]_vars

\* ------------------------------------------------- generateRecipeBook alone
\* The function run on a voxel list as addBlock calls can have left it, the
\* empty list included (the function is in the scope of the injected text).
RecipeVoxels ==
    { [x |-> 0, y |-> y, z |-> 0, type |-> t] : y \in {-2, -1, 0, 2, 10},
                                                t \in {Stone, Dirt, LogOak} }
VoxelLists == UNION { [1..n -> RecipeVoxels] : n \in 0..MaxVoxels }

GenerateRecipeBook ==
    /\ pc = "recipe"
    /\ listSummary' = Items(Counts(voxels))
    /\ listLayers' = Groups(Layers(voxels))
    /\ pc' = "recipeDone"
    /\ UNCHANGED <<gwBody, gwRuns, textOps, placedByText, errStage, voxels, meshes,
                   animating, sunLight, moonLight, godRayMesh, sky, errBox, panel,
                   toggles, lastEnv, raised, matCache, matFaces, meshMats, syntheses, camera,
                   htmlVars, hostVars>>

RecipeInit ==
    /\ pc = "recipe"
    /\ voxels \in VoxelLists
    /\ gwBody = NoFunction
    /\ gwRuns = 0
    /\ textOps = 0
    /\ placedByText = Len(voxels)
    /\ errStage = "none"
    /\ meshes = 0
    /\ animating = 0
    /\ sunLight = InitialSun
    /\ moonLight = InitialMoon
    /\ godRayMesh = InitialGodRay
    /\ sky = InitialSky
    /\ errBox = HiddenErrBox
    /\ panel = "none"
    /\ toggles = 0
    /\ lastEnv = NoEnv
    /\ raised = FALSE
    /\ matCache = <<>>
    /\ matFaces = <<>>
    /\ meshMats = <<>>
    /\ syntheses = 0
    /\ camera = InitialCamera
    /\ listSummary = <<>>
    /\ listLayers = <<>>
    /\ text = NoText
    /\ out = NoText
    /\ fn = "none"
    /\ twice = NoText
    /\ factor = 0
    /\ HostStart

RecipeNext == GenerateRecipeBook

SpecRecipe == RecipeInit /\ [][RecipeNext]_vars

\* ------------------------------------------------ src/utils/html.ts
\* A text is a sequence of tokens: the markers the functions look for, in the
\* spellings that matter to them, a whitespace character and a plain character.
Doctype == "<!DOCTYPE html>"
\* The token of a markdown fence (three backquotes).
Fence == "[fence]"
Css == "<style>...</style>"
ExtractTokens == {Doctype, "<html", "<HTML", "</html>", "</HTML>", Fence, "html", " ", "x"}
HideTokens == {"</head>", "</HEAD>", "</body>", "</BODY>", "x", Css}

\* The i flag of a regular expression, String.prototype.toLowerCase: on a token.
LowerTok(tok) ==
    CASE tok = Doctype -> "<!doctype html>"
      [] tok = "<HTML" -> "<html"
      [] tok = "</HTML>" -> "</html>"
      [] tok = "</HEAD>" -> "</head>"
      [] tok = "</BODY>" -> "</body>"
      [] OTHER -> tok

\* (<!DOCTYPE html>|<html) and <\/html> under the i flag
IsOpener(tok) == LowerTok(tok) \in {"<!doctype html>", "<html"}
IsCloser(tok) == LowerTok(tok) = "</html>"

\* The first index from i on whose token satisfies the test, 0 if none.
RECURSIVE FirstCloserFrom(_, _)
FirstCloserFrom(t, i) ==
    IF i > Len(t) THEN 0
    ELSE IF IsCloser(t[i]) THEN i ELSE FirstCloserFrom(t, i + 1)

RECURSIVE FirstFenceFrom(_, _)
FirstFenceFrom(t, i) ==
    IF i > Len(t) THEN 0
    ELSE IF t[i] = Fence THEN i ELSE FirstFenceFrom(t, i + 1)

NoMatch == [found |-> FALSE, from |-> 0, to |-> 0]

\* text.match(/(<!DOCTYPE html>|<html)[\s\S]*?<\/html>/i): the start positions
\* are tried from the left; [\s\S]*? stops at the first closing tag.
RECURSIVE HtmlMatchFrom(_, _)
HtmlMatchFrom(t, i) ==
    IF i > Len(t) THEN NoMatch
    ELSE IF IsOpener(t[i]) /\ FirstCloserFrom(t, i + 1) # 0
         THEN [found |-> TRUE, from |-> i, to |-> FirstCloserFrom(t, i + 1)]
         ELSE HtmlMatchFrom(t, i + 1)

\* \s* : the index after the run of whitespace that starts at i
RECURSIVE SkipSpace(_, _)
SkipSpace(t, i) ==
    IF i <= Len(t) /\ t[i] = " " THEN SkipSpace(t, i + 1) ELSE i

\* text.match(/[fence](?:html)?\s*([\s\S]*?)[fence]/): group 1 runs from after the
\* opening fence, the optional html and the whitespace to the next fence.
RECURSIVE CodeBlockFrom(_, _)
CodeBlockFrom(t, i) ==
    IF i > Len(t) THEN NoMatch
    ELSE IF t[i] = Fence /\ FirstFenceFrom(t, i + 1) # 0
         THEN LET a == IF i + 1 <= Len(t) /\ t[i + 1] = "html" THEN i + 2 ELSE i + 1
                  b == SkipSpace(t, a)
              IN  [found |-> TRUE, from |-> b, to |-> FirstFenceFrom(t, b) - 1]
         ELSE CodeBlockFrom(t, i + 1)

\* String.prototype.trim
RECURSIVE TrimLeft(_)
TrimLeft(t) == IF t # <<>> /\ Head(t) = " " THEN TrimLeft(Tail(t)) ELSE t
RECURSIVE TrimRight(_)
TrimRight(t) ==
    IF t # <<>> /\ t[Len(t)] = " " THEN TrimRight(SubSeq(t, 1, Len(t) - 1)) ELSE t
Trim(t) == TrimRight(TrimLeft(t))

\* export const extractHtmlFromText
extractFenceFirst(t) ==
    IF t = <<>> THEN <<>>
    ELSE IF CodeBlockFrom(t, 1).found
         THEN Trim(SubSeq(t, CodeBlockFrom(t, 1).from, CodeBlockFrom(t, 1).to))
         ELSE IF HtmlMatchFrom(t, 1).found
              THEN SubSeq(t, HtmlMatchFrom(t, 1).from, HtmlMatchFrom(t, 1).to)
              ELSE Trim(t)
extractHtmlFromText(t) ==
    IF t = <<>> THEN <<>>
    ELSE IF HtmlMatchFrom(t, 1).found
         THEN SubSeq(t, HtmlMatchFrom(t, 1).from, HtmlMatchFrom(t, 1).to)
         ELSE IF CodeBlockFrom(t, 1).found
              THEN Trim(SubSeq(t, CodeBlockFrom(t, 1).from, CodeBlockFrom(t, 1).to))
              ELSE Trim(t)

\* The first index whose token is tag under toLowerCase, 0 if none.
RECURSIVE FirstTagFrom(_, _, _)
FirstTagFrom(t, tag, i) ==
    IF i > Len(t) THEN 0
    ELSE IF LowerTok(t[i]) = tag THEN i ELSE FirstTagFrom(t, tag, i + 1)

\* html.replace(/<\/head>/i, cssToInject + '</head>'): the first match is
\* replaced by the style block followed by the tag as the code spells it.
InjectAfter(t, tag) ==
    LET i == FirstTagFrom(t, tag, 1) IN
    SubSeq(t, 1, i - 1) \o <<tag, Css>> \o SubSeq(t, i + 1, Len(t))
InjectBefore(t, tag) ==
    LET i == FirstTagFrom(t, tag, 1) IN
    SubSeq(t, 1, i - 1) \o <<Css, tag>> \o SubSeq(t, i + 1, Len(t))

\* export const hideBodyText
hideBodyText(t) ==
    IF FirstTagFrom(t, "</head>", 1) # 0 THEN InjectBefore(t, "</head>")
    ELSE IF FirstTagFrom(t, "</body>", 1) # 0 THEN InjectBefore(t, "</body>")
    ELSE t \o <<Css>>

\* The texts handed to the functions.
Texts(tokens) == UNION { [1..n -> tokens] : n \in 0..MaxLen }

Extract ==
    /\ fn = "none"
    /\ out' = extractHtmlFromText(text)
    /\ fn' = "extract"
    /\ UNCHANGED <<text, twice, factor, docVars, hostVars>>

\* The function applied to its own result.
ExtractAgain ==
    /\ fn = "extract"
    /\ twice' = extractHtmlFromText(out)
    /\ fn' = "extractTwice"
    /\ UNCHANGED <<text, out, factor, docVars, hostVars>>

HideBodyText ==
    /\ fn = "none"
    /\ out' = hideBodyText(text)
    /\ fn' = "hide"
    /\ UNCHANGED <<text, twice, factor, docVars, hostVars>>

HtmlInit ==
    /\ DocInit
    /\ gwBody = NoFunction
    /\ text \in Texts(ExtractTokens) \cup Texts(HideTokens)
    /\ out = NoText
    /\ fn = "none"
    /\ twice = NoText
    /\ factor = 0
    /\ HostStart

HtmlNext ==
    \/ Extract
    \/ ExtractAgain
    \/ HideBodyText

SpecHtml == HtmlInit /\ [][HtmlNext]_vars

\* ------------------------------------------------ zoomCamera
\* The text handed to zoomCamera is a sequence of items.  An item is a piece
\* of text of the form camera.position.set(A,B,C), its three arguments being
\* character sequences and ws the whitespace around them ("none": (A,B,C);
\* "canon": (A, B, C); "wide": ( A , B , C )), or some other piece of text.
Other == [call |-> FALSE, ws |-> "none", args |-> <<>>]
Call(ws, a, b, c) == [call |-> TRUE, ws |-> ws, args |-> <<a, b, c>>]

Digits == <<"0", "1", "2", "3", "4", "5", "6", "7", "8", "9">>
IsDigit(c) == \E d \in 1..10 : Digits[d] = c
DigitVal(c) == (CHOOSE d \in 1..10 : Digits[d] = c) - 1

\* \d* : the index after the run of digits that starts at i
RECURSIVE SkipDigits(_, _)
SkipDigits(s, i) == IF i <= Len(s) /\ IsDigit(s[i]) THEN SkipDigits(s, i + 1) ELSE i

\* (-?\d*\.?\d+) followed by \s* and the comma or the parenthesis: the whole
\* argument is an optional minus, digits, and either nothing more (one digit
\* at least) or a dot and one digit at least.
MatchesNumber(s) ==
    LET i == IF s # <<>> /\ s[1] = "-" THEN 2 ELSE 1
        a == SkipDigits(s, i)
    IN  IF a <= Len(s) /\ s[a] = "."
        THEN SkipDigits(s, a + 1) > a + 1 /\ SkipDigits(s, a + 1) = Len(s) + 1
        ELSE a > i /\ a = Len(s) + 1

\* The digits s[i..j-1] read as an integer.
RECURSIVE IntOf(_, _, _)
IntOf(s, i, j) == IF j <= i THEN 0 ELSE IntOf(s, i, j - 1) * 10 + DigitVal(s[j - 1])

Pow10(n) == CASE n = 0 -> 1 [] n = 1 -> 10 [] n = 2 -> 100 [] n = 3 -> 1000
              [] n = 4 -> 10000 [] n = 5 -> 100000 [] OTHER -> 1000000

\* parseFloat of a matched argument, in millionths (six decimals at most).
parseFloat(s) ==
    LET i == IF s[1] = "-" THEN 2 ELSE 1
        a == SkipDigits(s, i)
        b == SkipDigits(s, a + 1)
        whole == IntOf(s, i, a) * 1000000
        frac == IF a <= Len(s) THEN IntOf(s, a + 1, b) * Pow10(6 - (b - a - 1)) ELSE 0
    IN  IF s[1] = "-" THEN -(whole + frac) ELSE whole + frac

\* parseFloat(x) * zoomFactor.  The literals and the factors used here are
\* dyadic rationals, on which the multiplication of doubles is exact.
Scale(v, f) == (v * f) \div 4

\* The decimal digits of a natural number.
RECURSIVE DigitsOf(_)
DigitsOf(n) ==
    IF n < 10 THEN <<Digits[n + 1]>> ELSE Append(DigitsOf(n \div 10), Digits[(n % 10) + 1])

\* The six decimals of m millionths, trailing zeros dropped (k digits kept).
RECURSIVE Decimals(_, _)
Decimals(m, k) ==
    IF m % 10 = 0 THEN Decimals(m \div 10, k - 1)
    ELSE [d \in 1..k |-> Digits[((m \div Pow10(k - d)) % 10) + 1]]

\* The number-to-string conversion of a template literal, of v millionths:
\* the sign (of zero none), the integer part, the decimals if any.
NumberToString(v) ==
    LET m == IF v < 0 THEN -v ELSE v
        whole == DigitsOf(m \div 1000000)
        frac == IF m % 1000000 = 0 THEN <<>> ELSE <<".">> \o Decimals(m % 1000000, 6)
    IN  (IF v < 0 THEN <<"-">> ELSE <<>>) \o whole \o frac

\* The replacer: the call written anew with the three products.
ZoomFirstArgOnly(item, f) ==
    IF item.call /\ \A k \in 1..3 : MatchesNumber(item.args[k])
    THEN [call |-> TRUE, ws |-> "canon",
          args |-> [k \in 1..3 |-> IF k = 1
                                   THEN NumberToString(Scale(parseFloat(item.args[k]), f))
                                   ELSE item.args[k]]]
    ELSE item
ZoomItem(item, f) ==
    IF item.call /\ \A k \in 1..3 : MatchesNumber(item.args[k])
    THEN [call |-> TRUE, ws |-> "canon",
          args |-> [k \in 1..3 |-> NumberToString(Scale(parseFloat(item.args[k]), f))]]
    ELSE item

\* export const zoomCamera: html.replace(regex, replacer) under the g flag.
zoomCamera(t, f) == [i \in 1..Len(t) |-> ZoomItem(t[i], f)]

\* The arguments, the items and the texts handed to zoomCamera.
ZoomItems ==
    {Other} \cup
    { Call(ws, a, b, c) : ws \in {"none", "canon", "wide"},
                          a \in { <<"1", "0">>, <<"1", ".", "5">>, <<"1", "0", ".">>, <<"x">> },
                          b \in { <<"2", "0">>, <<".", "2", "5">> },
                          c \in { <<"-", "3", "0">>, <<"-", "0">> } }
ZoomTexts == UNION { [1..n -> ZoomItems] : n \in 0..MaxCalls }

\* zoomFactor: 0.5, 0.25 and 2, in quarters.
Factors == {2, 1, 8}

ZoomCamera ==
    /\ fn = "none"
    /\ \E f \in Factors :
         /\ factor' = f
         /\ out' = zoomCamera(text, f)
    /\ fn' = "zoom"
    /\ UNCHANGED <<text, twice, docVars, hostVars>>

ZoomInit ==
    /\ DocInit
    /\ gwBody = NoFunction
    /\ text \in ZoomTexts
    /\ out = NoText
    /\ fn = "none"
    /\ twice = NoText
    /\ factor = 0
    /\ HostStart

ZoomNext == ZoomCamera

SpecZoom == ZoomInit /\ [][ZoomNext]_vars

\* ------------------------------------------------- generateVoxelScene
\* What one chunk of the stream carries: text parts, or no candidates at all.
ChunkTexts == { <<"a">>, <<Fence, "javascript", "b">>, <<>>, <<Fence>>, <<"javascript">> }

\* What the generator's failure is: an Error, its message possibly empty.
Failures == { [thrown |-> TRUE, message |-> "quota exceeded"], [thrown |-> TRUE, message |-> ""] }

\* aiCode.replace(/[fence]javascript/g, '').replace(/[fence]/g, '')
RECURSIVE DropFencedJavascript(_)
DropFencedJavascript(t) ==
    IF t = <<>> THEN <<>>
    ELSE IF Len(t) >= 2 /\ t[1] = Fence /\ t[2] = "javascript"
         THEN DropFencedJavascript(SubSeq(t, 3, Len(t)))
         ELSE <<Head(t)>> \o DropFencedJavascript(Tail(t))
cleanCodeKeepsFences(aiCode) == DropFencedJavascript(aiCode)
cleanCode(aiCode) == SelectSeq(DropFencedJavascript(aiCode), LAMBDA tok : tok # Fence)

\* VOXEL_TEMPLATE(cleanCode): the template around the code is the same for all.
VOXEL_TEMPLATE(code) == [null |-> FALSE, code |-> code]

\* ------------------------------------------------- the viewer's iframe
\* A document of the iframe: loading, then its script has run (the message
\* listener is installed, init() ended in animate() or failed).  env: the last
\* environment message its listener received.
NewDocument(srcDoc, n) ==
    [id |-> n, srcDoc |-> srcDoc, state |-> "loading", loops |-> 0, env |-> NoEnv]

\* {isViewerVisible && ... {voxelCode && viewMode === 'voxel' && <iframe srcDoc={voxelCode} />}}
Mounted(h) == h.isViewerVisible /\ ~h.voxelCode.null /\ h.viewMode = "voxel"

\* The iframe after a render of App.  Without the element there is no
\* document; a new element, and an element whose srcDoc changed, load a new
\* document, the one before being discarded with its draw loop and canvas.
RenderKeepsOld(h, fs, n) ==
    IF ~Mounted(h) THEN <<>>
    ELSE IF fs # <<>> /\ fs[Len(fs)].srcDoc = h.voxelCode.code THEN fs
    ELSE Append(fs, NewDocument(h.voxelCode.code, n + 1))
Render(h, fs, n) ==
    IF ~Mounted(h) THEN <<>>
    ELSE IF fs # <<>> /\ fs[Len(fs)].srcDoc = h.voxelCode.code THEN fs
    ELSE <<NewDocument(h.voxelCode.code, n + 1)>>

Constructed(fs, fs2, n) == IF fs2 # <<>> /\ fs2[Len(fs2)].id = n + 1 THEN n + 1 ELSE n

\* History: which handler's render constructed the document now in the iframe
\* (handleVoxelize and handleExampleClick: by the setVoxelCode after their awaits).
MadeBy(t, n, n2, handler) == IF n2 > n THEN [t EXCEPT !.madeBy = handler] ELSE t

\* function animate(): one more draw loop of the document.
animate(doc) == [doc EXCEPT !.state = "running", !.loops = @ + 1]

\* The script of a loaded document runs: the listener is installed, init()
\* ends in animate(), or throws before it.
FrameLoads ==
    /\ \E i \in 1..Len(frames) :
         /\ frames[i].state = "loading"
         /\ \E ok \in BOOLEAN :
              frames' = [frames EXCEPT ![i] = IF ok THEN animate(@)
                                                  ELSE [@ EXCEPT !.state = "failed"]]
    /\ UNCHANGED <<host, gen, docsMade, tasks, docVars, htmlVars>>

\* if (iframeRef.current && iframeRef.current.contentWindow)
\*     contentWindow.postMessage({type: 'environment', sunlight, godrays}, '*')
\* The message goes to the window of the iframe as it is then: a document whose
\* script has run receives it, on a document still loading no listener hears it.
Hears(fs) == fs # <<>> /\ fs[Len(fs)].state # "loading"
PostEnvironment(fs, env) ==
    IF Hears(fs)
    THEN [fs EXCEPT ![Len(fs)].env = [seen |-> TRUE, sunlight |-> env.sunlight,
                                      godrays |-> env.godrays]]
    ELSE fs
\* History: the messages of the timer of handleVoxelize posted to a document
\* still loading.
Posted(t, fs) == IF fs # <<>> /\ ~Hears(fs) THEN [t EXCEPT !.lost = @ + 1] ELSE t

\* ------------------------------------------------- App
\* History: one more click, drop or slider move of the user.
Input(t) == [t EXCEPT !.inputs = @ + 1]

\* const isLoading = status !== 'idle' && status !== 'error'
isLoading(h) == h.status # "idle" /\ h.status # "error"

\* handleError: setStatus('error'); setErrorMsg(err.message || '...')
handleErrorKeepsStatus(h, err) == h
handleError(h, err) ==
    [h EXCEPT !.status = "error",
              !.errorMsg = IF err.message = "" THEN "An unexpected error occurred."
                           ELSE err.message,
              !.errors = @ + 1]

\* handleVoxelize up to the await: the button is there with an image and
\* enabled when nothing is loading.  The closure of the handler keeps the
\* imageData, selectedTile, sunlight and godRays of the render it was made in.
\* One call of generateVoxelScene is followed at a time (gen.pc = "idle").
HandleVoxelize ==
    /\ host.imageData # NoImage
    /\ ~isLoading(host)
    /\ gen.pc = "idle"
    /\ gen.runs < MaxRuns
    /\ tasks.inputs < MaxInputs
    /\ host' = [host EXCEPT !.status = "generating_voxels", !.errorMsg = "",
                            !.isViewerVisible = TRUE]
    /\ gen' = [pc |-> "opening", aiCode |-> <<>>, parts |-> <<>>, chunks |-> 0, calls |-> 0,
               runs |-> gen.runs + 1, error |-> NoError, shown |-> host.voxelCode,
               image |-> host.imageData, tile |-> host.selectedTile,
               env |-> [seen |-> TRUE, sunlight |-> host.sunlight, godrays |-> host.godRays]]
    /\ frames' = Render(host', frames, docsMade)
    /\ docsMade' = Constructed(frames, frames', docsMade)
    /\ tasks' = MadeBy(Input(tasks), docsMade, docsMade', "setIsViewerVisible")
    /\ UNCHANGED <<docVars, htmlVars>>

\* await ai.models.generateContentStream(...): the stream, or a rejection.
OpenStream ==
    /\ gen.pc = "opening"
    /\ \/ gen' = [gen EXCEPT !.pc = "streaming", !.calls = @ + 1]
       \/ \E e \in Failures : gen' = [gen EXCEPT !.pc = "rejected", !.calls = @ + 1, !.error = e]
    /\ UNCHANGED <<host, frames, docsMade, tasks, docVars, htmlVars>>

\* for await (const chunk of response): aiCode += part.text
NextChunk ==
    /\ gen.pc = "streaming"
    /\ gen.chunks < MaxChunks
    /\ \E t \in ChunkTexts : gen' = [gen EXCEPT !.aiCode = @ \o t, !.parts = Append(@, t),
                                               !.chunks = @ + 1]
    /\ UNCHANGED <<host, frames, docsMade, tasks, docVars, htmlVars>>

\* The stream fails between two chunks: the catch logs and throws the error.
StreamFails ==
    /\ gen.pc = "streaming"
    /\ \E e \in Failures : gen' = [gen EXCEPT !.pc = "rejected", !.error = e]
    /\ UNCHANGED <<host, frames, docsMade, tasks, docVars, htmlVars>>

\* The stream ends: return VOXEL_TEMPLATE(cleanCode).
StreamEnds ==
    /\ gen.pc = "streaming"
    /\ gen' = [gen EXCEPT !.pc = "resolved"]
    /\ UNCHANGED <<host, frames, docsMade, tasks, docVars, htmlVars>>

\* handleVoxelize after the await: setVoxelCode(code); with the user's tile
\* selected (in the closure) setUserContent(prev => prev ? {...prev, voxel:
\* code} : null); setViewMode('voxel'); setStatus('idle'); setTimeout(...,
\* 1000) with the closure's sunlight and godRays; and App renders.
Resolved ==
    /\ gen.pc = "resolved"
    /\ LET code == VOXEL_TEMPLATE(cleanCode(gen.aiCode)) IN
       host' = [host EXCEPT !.voxelCode = code,
                            !.codeOf = gen.image,
                            !.userContent =
                                IF gen.tile = "user" /\ ~@.null
                                THEN [@ EXCEPT !.voxel = code, !.voxelOf = gen.image]
                                ELSE @,
                            !.viewMode = "voxel", !.status = "idle"]
    /\ gen' = [gen EXCEPT !.pc = "idle"]
    /\ frames' = Render(host', frames, docsMade)
    /\ docsMade' = Constructed(frames, frames', docsMade)
    /\ tasks' = MadeBy([tasks EXCEPT !.timers = Append(@, gen.env)],
                       docsMade, docsMade', "handleVoxelize")
    /\ UNCHANGED <<docVars, htmlVars>>

\* catch (err) { handleError(err) }
Rejected ==
    /\ gen.pc = "rejected"
    /\ host' = handleError(host, gen.error)
    /\ gen' = [gen EXCEPT !.pc = "idle"]
    /\ frames' = Render(host', frames, docsMade)
    /\ docsMade' = Constructed(frames, frames', docsMade)
    /\ UNCHANGED <<tasks, docVars, htmlVars>>

\* The callback of setTimeout runs (the timers have the same delay: in the
\* order they were set): the environment message of the closure is posted.
TimerFires ==
    /\ tasks.timers # <<>>
    /\ frames' = PostEnvironment(frames, Head(tasks.timers))
    /\ tasks' = [Posted(tasks, frames) EXCEPT !.timers = Tail(@)]
    /\ UNCHANGED <<host, gen, docsMade, docVars, htmlVars>>

\* The View 3D / View 2D button: setViewMode(viewMode === 'image' ? 'voxel' : 'image')
ToggleView ==
    /\ host.imageData # NoImage
    /\ ~host.voxelCode.null
    /\ ~isLoading(host)
    /\ docsMade < MaxDocs
    /\ host' = [host EXCEPT !.viewMode = IF @ = "image" THEN "voxel" ELSE "image"]
    /\ frames' = Render(host', frames, docsMade)
    /\ docsMade' = Constructed(frames, frames', docsMade)
    /\ tasks' = MadeBy(tasks, docsMade, docsMade', "setViewMode")
    /\ UNCHANGED <<gen, docVars, htmlVars>>

HostInit ==
    /\ gwBody = NoFunction
    /\ DocStart
    /\ text = NoText
    /\ out = NoText
    /\ fn = "none"
    /\ twice = NoText
    /\ factor = 0
    /\ host = InitialHost("X")
    /\ gen = Idle
    /\ frames = <<>>
    /\ docsMade = 0
    /\ tasks = NoTasks

HostNext ==
    \/ HandleVoxelize
    \/ OpenStream
    \/ NextChunk
    \/ StreamFails
    \/ StreamEnds
    \/ Resolved
    \/ Rejected
    \/ TimerFires
    \/ FrameLoads
    \/ ToggleView

SpecHost == HostInit /\ [][HostNext]_vars

\* ------------------------------------------ App, the gallery and the generator
\* The files a user drops or picks, the image of an example, the image
\* generateImage returns; a file of a type outside ALLOWED_MIME_TYPES.
Files == {"X", "Y"}
TextFile == "T"
Examples == {"A", "B"}
GeneratedImage == "G"

\* What handleExampleClick makes of example.html: the scene of the file (the
\* files of the examples are served by the host page), or a page saying so.
ExampleScenes(example) ==
    { [null |-> FALSE, code |-> <<"scene", example>>],
      [null |-> FALSE, code |-> <<"not found", example>>],
      [null |-> FALSE, code |-> <<"Error loading example scene.">>] }

\* The values the sliders of the Atmosphere panel are moved to.
SliderSunlights == {250, 500}
SliderGodRays == {0, 50}

\* handleUserTileClick
HandleUserTileClick ==
    /\ ~isLoading(host)
    /\ tasks.inputs < MaxInputs
    /\ host' =
         IF host.selectedTile = "user"
         THEN IF ~host.showGenerator
              THEN [host EXCEPT !.showGenerator = TRUE, !.isViewerVisible = FALSE]
              ELSE [host EXCEPT !.showGenerator = FALSE, !.isViewerVisible = TRUE,
                                !.selectedTile = IF host.userContent.null THEN "none" ELSE @]
         ELSE IF ~host.userContent.null
              THEN [host EXCEPT !.selectedTile = "user", !.showGenerator = TRUE,
                                !.isViewerVisible = FALSE,
                                !.imageData = host.userContent.image,
                                !.voxelCode = host.userContent.voxel,
                                !.codeOf = host.userContent.voxelOf,
                                !.viewMode = IF host.userContent.voxel.null THEN "image"
                                             ELSE "voxel"]
              ELSE [host EXCEPT !.selectedTile = "user", !.showGenerator = TRUE,
                                !.isViewerVisible = FALSE,
                                !.imageData = NoImage, !.voxelCode = NoCode,
                                !.codeOf = NoImage, !.viewMode = "image"]
    /\ frames' = Render(host', frames, docsMade)
    /\ docsMade' = Constructed(frames, frames', docsMade)
    /\ tasks' = MadeBy(Input(tasks), docsMade, docsMade', "handleUserTileClick")
    /\ UNCHANGED <<gen, docVars, htmlVars>>

\* handleDrop, handleFileUpload: processFile(file) up to reader.readAsDataURL.
\* The drop zone and the file input are in the generator panel.
ProcessFile ==
    /\ host.showGenerator
    /\ tasks.inputs < MaxInputs
    /\ \E file \in Files \cup {TextFile} :
         IF file = TextFile
         THEN /\ host' = handleError(host, [thrown |-> TRUE, message |-> "Invalid file type."])
              /\ tasks' = Input(tasks)
         ELSE /\ host' = host
              /\ tasks' = [Input(tasks) EXCEPT !.readers = Append(@, file)]
    /\ frames' = Render(host', frames, docsMade)
    /\ docsMade' = Constructed(frames, frames', docsMade)
    /\ UNCHANGED <<gen, docVars, htmlVars>>

\* reader.onload of processFile, or reader.onerror.
ReaderLoads ==
    /\ \E i \in 1..Len(tasks.readers) : \E ok \in BOOLEAN :
         LET result == tasks.readers[i]
             rest == SubSeq(tasks.readers, 1, i - 1)
                       \o SubSeq(tasks.readers, i + 1, Len(tasks.readers))
         IN /\ host' =
                 IF ok
                 THEN [host EXCEPT !.userContent = [null |-> FALSE, image |-> result,
                                                    voxel |-> NoCode, voxelOf |-> NoImage],
                                   !.imageData = result, !.voxelCode = NoCode,
                                   !.codeOf = NoImage, !.viewMode = "image",
                                   !.status = "idle", !.errorMsg = "",
                                   !.selectedTile = "user", !.showGenerator = FALSE,
                                   !.isViewerVisible = TRUE]
                 ELSE handleError(host, [thrown |-> TRUE, message |-> "Failed to read file"])
            /\ frames' = Render(host', frames, docsMade)
            /\ docsMade' = Constructed(frames, frames', docsMade)
            /\ tasks' = [tasks EXCEPT !.readers = rest]
    /\ UNCHANGED <<gen, docVars, htmlVars>>

\* handleExampleClick up to the first await.
HandleExampleClick ==
    /\ ~isLoading(host)
    /\ tasks.inputs < MaxInputs
    /\ \E example \in Examples :
         /\ host' = [host EXCEPT !.selectedTile = example, !.showGenerator = FALSE,
                                 !.errorMsg = "", !.isViewerVisible = TRUE]
         /\ frames' = Render(host', frames, docsMade)
         /\ docsMade' = Constructed(frames, frames', docsMade)
         /\ tasks' = MadeBy([Input(tasks) EXCEPT !.examples = Append(@, example)],
                            docsMade, docsMade', "setIsViewerVisible")
    /\ UNCHANGED <<gen, docVars, htmlVars>>

\* handleExampleClick after its awaits: setImageData(base64Img);
\* setVoxelCode(htmlText); setViewMode('voxel'); setStatus('idle'), or the
\* catch with handleError when the image did not load.
ExampleResolves ==
    /\ \E i \in 1..Len(tasks.examples) :
         LET example == tasks.examples[i]
             rest == SubSeq(tasks.examples, 1, i - 1)
                       \o SubSeq(tasks.examples, i + 1, Len(tasks.examples))
         IN /\ \/ \E htmlText \in ExampleScenes(example) :
                    host' = [host EXCEPT !.imageData = example, !.voxelCode = htmlText,
                                         !.codeOf = example, !.viewMode = "voxel",
                                         !.status = "idle"]
               \/ host' = handleError(host, [thrown |-> TRUE,
                                             message |-> "Failed to load example image"])
            /\ frames' = Render(host', frames, docsMade)
            /\ docsMade' = Constructed(frames, frames', docsMade)
            /\ tasks' = MadeBy([tasks EXCEPT !.examples = rest],
                               docsMade, docsMade', "handleExampleClick")
    /\ UNCHANGED <<gen, docVars, htmlVars>>

\* handleImageGenerate up to the await, with a prompt typed in.
HandleImageGenerate ==
    /\ host.showGenerator
    /\ ~isLoading(host)
    /\ tasks.inputs < MaxInputs
    /\ host' = [host EXCEPT !.status = "generating_image", !.errorMsg = "",
                            !.imageData = NoImage, !.voxelCode = NoCode,
                            !.codeOf = NoImage, !.viewMode = "image",
                            !.isViewerVisible = TRUE]
    /\ frames' = Render(host', frames, docsMade)
    /\ docsMade' = Constructed(frames, frames', docsMade)
    /\ tasks' = [Input(tasks) EXCEPT !.images = @ + 1]
    /\ UNCHANGED <<gen, docVars, htmlVars>>

\* handleImageGenerate after the await, or its catch.
ImageResolves ==
    /\ tasks.images > 0
    /\ \/ host' = [host EXCEPT !.userContent = [null |-> FALSE, image |-> GeneratedImage,
                                                voxel |-> NoCode, voxelOf |-> NoImage],
                               !.imageData = GeneratedImage, !.voxelCode = NoCode,
                               !.codeOf = NoImage, !.selectedTile = "user",
                               !.status = "idle", !.showGenerator = FALSE]
       \/ \E e \in Failures : host' = handleError(host, e)
    /\ frames' = Render(host', frames, docsMade)
    /\ docsMade' = Constructed(frames, frames', docsMade)
    /\ tasks' = [tasks EXCEPT !.images = @ - 1]
    /\ UNCHANGED <<gen, docVars, htmlVars>>

\* A slider of the Atmosphere panel (shown with viewMode 'voxel' and a
\* voxelCode) is moved: setSunlight or setGodRays, and the effect on
\* [sunlight, godRays] posts the environment to the iframe there is.
SetSunlight ==
    /\ host.viewMode = "voxel" /\ ~host.voxelCode.null
    /\ tasks.inputs < MaxInputs
    /\ \E v \in SliderSunlights \ {host.sunlight} :
         /\ host' = [host EXCEPT !.sunlight = v]
         /\ frames' = PostEnvironment(frames, [sunlight |-> v, godrays |-> host.godRays])
    /\ tasks' = Input(tasks)
    /\ UNCHANGED <<gen, docsMade, docVars, htmlVars>>

SetGodRays ==
    /\ host.viewMode = "voxel" /\ ~host.voxelCode.null
    /\ tasks.inputs < MaxInputs
    /\ \E v \in SliderGodRays \ {host.godRays} :
         /\ host' = [host EXCEPT !.godRays = v]
         /\ frames' = PostEnvironment(frames, [sunlight |-> host.sunlight, godrays |-> v])
    /\ tasks' = Input(tasks)
    /\ UNCHANGED <<gen, docsMade, docVars, htmlVars>>

AppInit ==
    /\ gwBody = NoFunction
    /\ DocStart
    /\ text = NoText
    /\ out = NoText
    /\ fn = "none"
    /\ twice = NoText
    /\ factor = 0
    /\ HostStart

AppNext ==
    \/ HandleUserTileClick
    \/ ProcessFile
    \/ ReaderLoads
    \/ HandleExampleClick
    \/ ExampleResolves
    \/ HandleImageGenerate
    \/ ImageResolves
    \/ SetSunlight
    \/ SetGodRays
    \/ HandleVoxelize
    \/ OpenStream
    \/ NextChunk
    \/ StreamFails
    \/ StreamEnds
    \/ Resolved
    \/ Rejected
    \/ TimerFires
    \/ FrameLoads
    \/ ToggleView

SpecApp == AppInit /\ [][AppNext]_vars

\* ------------------------------------------------------------ claims
\* The interpretation phase of init is over: the closure has returned or thrown.
Interpreted ==
    \/ pc \in {"build", "running"}
    \/ pc = "failed" /\ errStage \in {"aiCode", "build"}

\* The fallback platform footprint: bedrock at y = 0 for every x, z in -2..2.
HasFootprint(vs) ==
    \A x \in -2..2 : \A z \in -2..2 :
        \E i \in 1..Len(vs) : vs[i] = [x |-> x, y |-> 0, z |-> z, type |-> Bedrock]

\* C1: when the injected text threw, or ran without placing a voxel, the
\* voxel list after the interpretation phase is non-empty and contains the
\* fallback platform footprint.
C1_FallbackAfterThrowOrEmpty ==
    (Interpreted /\ (errStage = "aiCode" \/ placedByText = 0))
        => (Len(voxels) > 0 /\ HasFootprint(voxels))

\* C2: when the injected text declares generateWorld, the function has run
\* exactly once when the interpretation phase has ended without an error.
C2_GenerateWorldOnce ==
    (gwBody.defined /\ pc \in {"fallback", "build", "running"}) => gwRuns = 1

\* C3: when the injected text or a later step of init throws, the error box is
\* shown with an error message; a toggleInstructions message handled afterwards
\* flips the build-guide panel and an environment message handled afterwards is
\* taken (the lights exist) and raises no error.
InitThrew == pc = "failed" /\ errStage \in {"aiCode", "build"}
C3_ErrorShown ==
    InitThrew =>
        /\ errBox.display = "block"
        /\ errBox.title \in {"Render Error", "Script Error"}
        /\ errBox.message # ""
        /\ errBox.title = "Render Error"
             => errBox.message \in {"boom", "ReferenceError", "render"}
C3_ChromeWorks ==
    InitThrew =>
        /\ OnMessage(ToggleMsg) => (panel' # panel /\ raised' = FALSE)
        /\ \A d \in EnvMsgs :
             OnMessage(d) => (raised' = FALSE /\ lastEnv'.seen
                              /\ lastEnv'.sunlight = d.sunlight /\ errBox' = errBox)
C4_ExactlyOneLit ==
    pc = "running" => ((sunLight.intensity # 0) # (moonLight.intensity # 0))

\* C5 (as stated): after an environment message, sunlight 0.0 has selected
\* the dawn band and sunlight 0.45 the night band.
C5_Original ==
    lastEnv.seen =>
        /\ lastEnv.sunlight = 0 => sky.band = "dawn"
        /\ lastEnv.sunlight = 450 => sky.band = "night"

\* C5 (amended): after an environment message the band is decided by sunlight
\* alone, one band for every value: dawn below 0.1, day from 0.1 to below 0.4,
\* sunset from 0.4 to below 0.55, night from 0.55 to below 0.9, sunrise from
\* 0.9 on; so sunlight 0.0 selects dawn and sunlight 0.45 selects sunset.
C5_Bands ==
    lastEnv.seen =>
        LET t == lastEnv.sunlight IN
        /\ sky.band \in {"dawn", "day", "sunset", "night", "sunrise"}
        /\ (sky.band = "dawn") <=> (t < 100)
        /\ (sky.band = "day") <=> (100 <= t /\ t < 400)
        /\ (sky.band = "sunset") <=> (400 <= t /\ t < 550)
        /\ (sky.band = "night") <=> (550 <= t /\ t < 900)
        /\ (sky.band = "sunrise") <=> (900 <= t)
        /\ t = 0 => sky.band = "dawn"
        /\ t = 450 => sky.band = "sunset"
C5_Witness == lastEnv.seen /\ lastEnv.sunlight = 450 /\ sky.band = "sunset"

\* C6: a message that is neither an environment nor a toggleInstructions
\* message (no type field, data not an object included) changes neither the
\* lights, the sky, the god rays nor the panel, and raises no error.
C6_UnknownIgnored ==
    [][\A d \in OtherMsgs :
         OnMessage(d) => (/\ UNCHANGED <<sunLight, moonLight, godRayMesh, sky, panel>>
                          /\ raised' = FALSE)]_vars

\* C7: the build-guide panel starts hidden and is shown exactly when the number
\* of toggleInstructions messages handled is odd; a toggle message leaves the
\* sun, the moon, the sky and the god rays as they are, and an environment
\* message leaves the panel as it is.
C7_PanelParity == panel = (IF toggles % 2 = 1 THEN "flex" ELSE "none")
C7_Frame ==
    /\ OnMessage(ToggleMsg) => UNCHANGED <<sunLight, moonLight, godRayMesh, sky>>
    /\ \A d \in EnvMsgs : OnMessage(d) => panel' = panel
C7_TogglePanel == [](C7_PanelParity) /\ [][C7_Frame]_vars
C7_Witness == toggles = 2 /\ panel = "none" /\ lastEnv.seen /\ sunLight.intensity = 0

\* C8: extractHtmlFromText applies a strict precedence.  Empty input gives the
\* empty string.  A text holding an opening doctype/root tag (any case) with a
\* closing root tag after it gives the text from the first such opening tag
\* through the first closing tag after it.  Otherwise a text holding two fences
\* gives what lies between the first two, without a leading html tag and
\* without surrounding whitespace.  Otherwise the result is the trimmed input.
Extracted == fn \in {"extract", "extractTwice"}
Openers == { i \in 1..Len(text) :
               IsOpener(text[i]) /\ \E j \in (i + 1)..Len(text) : IsCloser(text[j]) }
Fences == { i \in 1..Len(text) : text[i] = Fence }
Min(S) == CHOOSE m \in S : \A n \in S : m <= n
NoSpaceAtEnds(t) == t = <<>> \/ (t[1] # " " /\ t[Len(t)] # " ")
\* t is text[a..b] for some a, b with lo < a and b < hi, what is left out before
\* a being an optional html (when lead) then whitespace, and after b whitespace.
Between(t, lo, hi, lead) ==
    \E a \in (lo + 1)..hi : \E b \in (a - 1)..(hi - 1) :
        /\ t = SubSeq(text, a, b)
        /\ \A k \in (lo + 1)..(a - 1) :
             text[k] = " " \/ (lead /\ k = lo + 1 /\ text[k] = "html")
        /\ \A k \in (b + 1)..(hi - 1) : text[k] = " "
        /\ (lead /\ lo + 1 < hi /\ text[lo + 1] = "html") => a > lo + 1
C8_Precedence ==
    Extracted =>
        IF text = <<>> THEN out = <<>>
        ELSE IF Openers # {}
        THEN LET i == Min(Openers)
                 j == Min({ k \in (i + 1)..Len(text) : IsCloser(text[k]) })
             IN  out = SubSeq(text, i, j)
        ELSE IF Cardinality(Fences) >= 2
        THEN LET i == Min(Fences)
                 j == Min(Fences \ {i})
             IN  NoSpaceAtEnds(out) /\ Between(out, i, j, TRUE)
        ELSE NoSpaceAtEnds(out) /\ Between(out, 0, Len(text) + 1, FALSE)
C8_Witness ==
    /\ Extracted
    /\ text = <<Fence, "html", "x", Fence>>
    /\ out = <<"x">>

\* A document embedded at a..b: an opening doctype or root tag at a, the
\* closing root tag at b, and between them no closing tag and no opening tag
\* but the root tag that follows the doctype; a is where the document starts.
EmbedsAt(a, b) ==
    /\ a < b
    /\ IsOpener(text[a])
    /\ IsCloser(text[b])
    /\ \A k \in (a + 1)..(b - 1) :
         /\ ~IsCloser(text[k])
         /\ IsOpener(text[k]) => (k = a + 1 /\ text[a] = Doctype /\ text[k] # Doctype)
    /\ ~(a > 1 /\ text[a - 1] = Doctype /\ text[a] # Doctype)
Documents == { p \in (1..Len(text)) \X (1..Len(text)) : EmbedsAt(p[1], p[2]) }

\* C9: for a text that embeds one well-formed document in surrounding prose
\* (here even: prose that holds no doctype), extractHtmlFromText returns exactly
\* that document, and applying it again to the result returns the same string.
ProseHasNoDoctype(a, b) ==
    \A k \in (1..Len(text)) \ (a..b) : text[k] # Doctype
C9_ExtractsEmbeddedDocument ==
    (Extracted /\ Cardinality(Documents) = 1) =>
        \A p \in Documents :
            ProseHasNoDoctype(p[1], p[2]) =>
                /\ out = SubSeq(text, p[1], p[2])
                /\ fn = "extractTwice" => twice = out

\* C10 (as stated): for an input containing a closing head tag, the output of
\* hideBodyText contains exactly one closing head tag, the style block right
\* before it.
HeadTags(t) == { i \in 1..Len(t) : LowerTok(t[i]) = "</head>" }
C10_Original ==
    (fn = "hide" /\ HeadTags(text) # {}) =>
        /\ Cardinality(HeadTags(out)) = 1
        /\ \A k \in HeadTags(out) : k > 1 /\ out[k - 1] = Css

\* C10 (amended): for an input containing a closing head tag, the output of
\* hideBodyText contains as many closing head tags as the input (exactly one
\* when the input holds exactly one), and the style block is immediately before
\* the first of them.
C10_StyleBeforeFirstHead ==
    (fn = "hide" /\ HeadTags(text) # {}) =>
        /\ Cardinality(HeadTags(out)) = Cardinality(HeadTags(text))
        /\ LET k == Min(HeadTags(out)) IN
           /\ k = Min(HeadTags(text)) + 1
           /\ out[k - 1] = Css
           /\ out[k] = "</head>"
C10_Witness ==
    /\ fn = "hide"
    /\ text = <<"x", "</HEAD>", "</body>">>
    /\ out = <<"x", Css, "</head>", "</body>">>

\* C11: hideBodyText inserts the style block at one point, chosen by priority
\* (before the first closing head tag, else before the first closing body tag,
\* else at the end), and changes nothing else: the output without the inserted
\* block is the input, token for token in the spelling of the input.
RemoveAt(t, k) == SubSeq(t, 1, k - 1) \o SubSeq(t, k + 1, Len(t))
InsertionPoint(t) ==
    IF FirstTagFrom(t, "</head>", 1) # 0 THEN FirstTagFrom(t, "</head>", 1)
    ELSE IF FirstTagFrom(t, "</body>", 1) # 0 THEN FirstTagFrom(t, "</body>", 1)
    ELSE Len(t) + 1
C11_InsertsAndKeepsRest ==
    fn = "hide" =>
        /\ Len(out) = Len(text) + 1
        /\ out[InsertionPoint(text)] = Css
        /\ RemoveAt(out, InsertionPoint(text)) = text

\* C12: zoomCamera replaces every camera.position.set call whose three
\* arguments are numeric literals (an optional minus, digits, optionally a
\* decimal point with digits after it) by the call with each argument
\* multiplied by the factor, each call on its own, and leaves the rest of the
\* text, a text without such a call included, unchanged; (10, 20, -30) with
\* factor 0.5 becomes (5, 10, -15).
IsLiteral(s) ==
    LET body == IF s # <<>> /\ s[1] = "-" THEN Tail(s) ELSE s
        dots == { i \in 1..Len(body) : body[i] = "." }
    IN  /\ body # <<>>
        /\ \A i \in 1..Len(body) : IsDigit(body[i]) \/ body[i] = "."
        /\ Cardinality(dots) <= 1
        /\ IsDigit(body[Len(body)])
LiteralCall(item) == item.call /\ \A k \in 1..3 : IsLiteral(item.args[k])
Example12 == Call("canon", <<"1", "0">>, <<"2", "0">>, <<"-", "3", "0">>)
C12_RescalesEveryCall ==
    fn = "zoom" =>
        /\ Len(out) = Len(text)
        /\ \A i \in 1..Len(text) :
             IF LiteralCall(text[i])
             THEN /\ out[i].call
                  /\ \A k \in 1..3 :
                       /\ IsLiteral(out[i].args[k])
                       /\ parseFloat(out[i].args[k]) * 4
                            = parseFloat(text[i].args[k]) * factor
             ELSE out[i] = text[i]
        /\ \A i \in 1..Len(text) :
             (text[i] = Example12 /\ factor = 2)
                 => out[i].args = << <<"5">>, <<"1", "0">>, <<"-", "1", "5">> >>
C12_Witness ==
    /\ fn = "zoom"
    /\ factor = 2
    /\ text = <<Example12, Call("none", <<"1", ".", "5">>, <<".", "2", "5">>, <<"-", "0">>)>>
    /\ out = <<Call("canon", <<"5">>, <<"1", "0">>, <<"-", "1", "5">>),
               Call("canon", <<"0", ".", "7", "5">>, <<"0", ".", "1", "2", "5">>, <<"0">>)>>

\* C13: once the scene is built, the total-materials view has one item per
\* type of the voxel list, showing the number of voxels of that type (so the
\* numbers add up to the length of the list), and the layer view has one group
\* per Y of the list, with one item per type present at that Y showing the
\* number of voxels of that type at that Y; the list (0,0,0,stone),
\* (1,0,0,stone), (0,1,0,dirt) gives stone 2, dirt 1 and the layers Y=0 with
\* stone 2 and Y=1 with dirt 1.
TypesOf(vs) == { vs[i].type : i \in 1..Len(vs) }
YsOf(vs) == { vs[i].y : i \in 1..Len(vs) }
Number(n) == [num |-> TRUE, n |-> n]
HowMany(vs, type) == Cardinality({ i \in 1..Len(vs) : vs[i].type = type })
HowManyAt(vs, y, type) == Cardinality({ i \in 1..Len(vs) : vs[i].type = type /\ vs[i].y = y })
\* The items are exactly one item per type of S, each showing count(type).
ItemsShow(items, S, count(_)) ==
    /\ Len(items) = Cardinality(S)
    /\ \A t \in S : \E k \in 1..Len(items) :
         items[k] = [label |-> Label(t), count |-> Number(count(t))]
ExampleList13 ==
    << [x |-> 0, y |-> 0, z |-> 0, type |-> Stone],
       [x |-> 1, y |-> 0, z |-> 0, type |-> Stone],
       [x |-> 0, y |-> 1, z |-> 0, type |-> Dirt] >>
C13_Aggregates ==
    pc = "running" =>
        /\ LET total(t) == HowMany(voxels, t) IN ItemsShow(listSummary, TypesOf(voxels), total)
        /\ Len(listLayers) = Cardinality(YsOf(voxels))
        /\ \A y \in YsOf(voxels) : \E g \in 1..Len(listLayers) :
             /\ listLayers[g].y = y
             /\ LET at(t) == HowManyAt(voxels, y, t)
                IN  ItemsShow(listLayers[g].items,
                              { t \in TypesOf(voxels) : HowManyAt(voxels, y, t) > 0 }, at)
        /\ voxels = ExampleList13 =>
             /\ listSummary = << [label |-> Stone, count |-> Number(2)],
                                 [label |-> Dirt, count |-> Number(1)] >>
             /\ listLayers =
                  << [number |-> 1, y |-> 0,
                      items |-> << [label |-> Stone, count |-> Number(2)] >>],
                     [number |-> 2, y |-> 1,
                      items |-> << [label |-> Dirt, count |-> Number(1)] >>] >>

\* C14: the layer view lists one group per distinct Y of the voxel list, in
\* strictly ascending order of Y from the least Y present (below zero
\* included); the i-th group carries the number i and its Y.  For the empty
\* voxel list both views are empty and no error is shown.
C14_LayerGuide ==
    pc = "recipeDone" =>
        /\ { listLayers[i].y : i \in 1..Len(listLayers) } = YsOf(voxels)
        /\ Len(listLayers) = Cardinality(YsOf(voxels))
        /\ \A i \in 1..Len(listLayers) : listLayers[i].number = i
        /\ \A i \in 1..Len(listLayers) : \A j \in 1..Len(listLayers) :
             i < j => listLayers[i].y < listLayers[j].y
        /\ voxels # <<>> => \A i \in 1..Len(voxels) : listLayers[1].y <= voxels[i].y
        /\ voxels = <<>> =>
             (listSummary = <<>> /\ listLayers = <<>> /\ errBox = HiddenErrBox /\ ~raised)
C14_Witness ==
    /\ pc = "recipeDone"
    /\ Len(voxels) = 3
    /\ voxels[1].y = 10 /\ voxels[2].y = -1 /\ voxels[3].y = 2
    /\ [i \in 1..Len(listLayers) |-> <<listLayers[i].number, listLayers[i].y>>]
         = << <<1, -1>>, <<2, 2>>, <<3, 10>> >>

Max(S) == CHOOSE m \in S : \A n \in S : m >= n
Coords(axis) == { voxels[i][axis] : i \in 1..Len(voxels) }
BoxSize == Max({ Max(Coords(a)) - Min(Coords(a)) : a \in {"x", "y", "z"} })
Axes == <<"x", "y", "z">>
Margin == <<15, 10, 15>>
C16_CameraFramesBox ==
    meshMats # <<>> =>
        /\ \A k \in 1..3 :
             /\ 2 * camera.target[k] = Blocks(Min(Coords(Axes[k])) + Max(Coords(Axes[k])))
             /\ camera.pos[k] - camera.target[k] = Blocks(BoxSize + Margin[k])
        /\ (/\ Min(Coords("x")) = -2 /\ Max(Coords("x")) = 2
            /\ Min(Coords("y")) = 0 /\ Max(Coords("y")) = 3
            /\ Min(Coords("z")) = -1 /\ Max(Coords("z")) = 1)
             => /\ camera.target = <<0, 15000, 0>>
                /\ camera.pos = <<190000, 155000, 190000>>
C16_Witness ==
    /\ pc = "running"
    /\ Len(voxels) = 4
    /\ voxels[1] = [x |-> -2, y |-> 0, z |-> -1, type |-> Stone]
    /\ voxels[2] = [x |-> 2, y |-> 3, z |-> 1, type |-> LogOak]
    /\ camera.target = <<0, 15000, 0>>
    /\ camera.pos = <<190000, 155000, 190000>>

\* C17: every voxel stored by addBlock has a type without an upper-case
\* letter and without a space, the spaces of the type passed being replaced by
\* underscores (Log Oak is stored as log_oak), and a call without a type, or
\* with the empty one, stores stone.
UpperCase == {"B", "D", "L", "O", "S"}
Expected(type) ==
    IF type = NoType THEN Stone ELSE IF type = RawOakLog THEN LogOak ELSE type
CallsInReach ==
    BlockCalls \cup { gwBody.body[k] : k \in { j \in 1..Len(gwBody.body) :
                                                 gwBody.body[j].op = "addBlock" } }
C17_Stored ==
    \A i \in 1..Len(voxels) :
        /\ voxels[i].type # <<>>
        /\ \A k \in 1..Len(voxels[i].type) : voxels[i].type[k] \notin UpperCase \cup {" "}
C17_Step ==
    (pc = "aiCode" /\ Len(voxels') > Len(voxels)) =>
        \A i \in (Len(voxels) + 1)..Len(voxels') :
            \E c \in CallsInReach :
                voxels'[i] = [x |-> c.x, y |-> c.y, z |-> c.z, type |-> Expected(c.type)]
C17_TypesNormalized == [](C17_Stored) /\ [][C17_Step]_vars
C17_Witness ==
    /\ pc = "running"
    /\ Len(voxels) = 4
    /\ voxels[2] = [x |-> 2, y |-> 3, z |-> 1, type |-> LogOak]
    /\ voxels[3] = [x |-> 0, y |-> 1, z |-> 0, type |-> Stone]

\* C20: the fallback structure is placed only when the voxel list is empty
\* after the interpretation, and it is then the same 27 voxels: bedrock at
\* (x,0,z) for every x, z in -2..2, planks_oak at (0,1,0) and (0,2,0); a list
\* that is not empty is left as it is, by the fallback and by what follows.
IsFallbackStructure(vs) ==
    /\ Len(vs) = 27
    /\ HasFootprint(vs)
    /\ \E i \in 1..Len(vs) : vs[i] = [x |-> 0, y |-> 1, z |-> 0, type |-> PlanksOak]
    /\ \E i \in 1..Len(vs) : vs[i] = [x |-> 0, y |-> 2, z |-> 0, type |-> PlanksOak]
C20_Step ==
    /\ pc = "fallback" =>
         IF voxels = <<>> THEN IsFallbackStructure(voxels') ELSE voxels' = voxels
    /\ pc \in {"start", "build", "running", "failed"} => voxels' = voxels
LoopsRunning == { i \in 1..Len(frames) : frames[i].loops > 0 }
C18_OneLoop ==
    /\ Cardinality(LoopsRunning) <= 1
    /\ \A i \in 1..Len(frames) : frames[i].loops <= 1
C18_Rebuild ==
    docsMade' > docsMade =>
        /\ Len(frames') = 1
        /\ frames'[1].id = docsMade'
        /\ frames'[1].loops = 0
        /\ \A i \in 1..Len(frames) : \A j \in 1..Len(frames') : frames'[j].id # frames[i].id
HumanMessages == {"quota exceeded", "An unexpected error occurred."}
C19_NoRetryNoPartial ==
    /\ gen.calls <= 1
    /\ host.errors <= gen.runs
    /\ gen.pc \in {"opening", "streaming", "rejected", "resolved"}
         => (host.voxelCode = gen.shown /\ host.status = "generating_voxels")
C19_Step ==
    /\ (gen.pc = "rejected" /\ gen'.pc # "rejected") =>
         /\ host'.errors = host.errors + 1
         /\ host'.errorMsg \in HumanMessages
         /\ gen.error.message # "" => host'.errorMsg = gen.error.message
         /\ host'.status = "error"
         /\ ~isLoading(host')
         /\ host'.voxelCode = gen.shown
         /\ host'.viewMode = host.viewMode
         /\ frames' = frames
    /\ host'.errors # host.errors => gen.pc = "rejected"
    /\ gen.pc = "rejected" => gen'.pc \in {"rejected", "idle"}
C19_FailurePropagates == [](C19_NoRetryNoPartial) /\ [][C19_Step]_vars
C19_Witness ==
    /\ gen.runs = 2
    /\ gen.pc = "idle"
    /\ gen.error.thrown
    /\ gen.chunks = 1
    /\ gen.aiCode # <<>>
    /\ host.status = "error"
    /\ host.errorMsg = "quota exceeded"
    /\ host.errors = 1
    /\ ~host.voxelCode.null
    /\ host.voxelCode = gen.shown
    /\ Len(frames) = 1
    /\ frames[1].loops = 1

\* C21: after an environment message with sunlight s has been handled, the
\* sun is lit and the moon dark exactly when the sun's height
\* 120*sin(2*pi*s - pi/2) is above -10 (that is for s from 0.2368 to 0.7632),
\* otherwise the sun is dark and the moon lit; the moon's x and y are the
\* negation of the sun's.
Height(s) == SunY(s)
C21_LitByHeight ==
    lastEnv.seen =>
        LET s == lastEnv.sunlight
            sunUp == sunLight.intensity # 0 /\ moonLight.intensity = 0
            moonUp == sunLight.intensity = 0 /\ moonLight.intensity # 0
        IN  /\ sunLight.pos[2] = Height(s)
            /\ sunUp <=> Height(s) > Blocks(-10)
            /\ sunUp <=> (237 <= s /\ s <= 763)
            /\ ~sunUp => moonUp
            /\ moonLight.pos[1] = -sunLight.pos[1]
            /\ moonLight.pos[2] = -sunLight.pos[2]
C21_Witness ==
    /\ lastEnv.seen
    /\ lastEnv.sunlight = 236
    /\ sunLight.intensity = 0
    /\ moonLight.intensity = 5
    /\ sunLight.pos[2] < Blocks(-10)
    /\ sunLight.pos[1] > 0
    /\ moonLight.pos[1] = -sunLight.pos[1]

\* C22: the voxel list only grows while the injected text is interpreted.  A
\* step of the text leaves every earlier entry where it was and appends one
\* entry per addBlock call it makes, in the order of the calls, also for
\* coordinates the list holds already; two entries with the same coordinates
\* both stay in the list, both have a mesh, and the build guide counts both:
\* the item of their type stands at the number of entries of that type (for
\* the type constructor, whose tally starts from an inherited function, the
\* item is that function's text followed by one character per entry, see C13).
Tally(type, n) == [num |-> type # Constructor, n |-> n]
Throws(body) == { k \in 1..Len(body) : body[k].op = "throw" }
BeforeThrow(body) ==
    IF Throws(body) = {} THEN body ELSE SubSeq(body, 1, Min(Throws(body)) - 1)
SamePlace(v, w) == v.x = w.x /\ v.y = w.y /\ v.z = w.z
Stores(v, c) == SamePlace(v, c) /\ v.type = Expected(c.type)
C22_Step ==
    pc = "aiCode" =>
        /\ Len(voxels') >= Len(voxels)
        /\ SubSeq(voxels', 1, Len(voxels)) = voxels
        /\ gwRuns' = gwRuns =>
             /\ Len(voxels') <= Len(voxels) + 1
             /\ Len(voxels') = Len(voxels) + 1
                  => \E c \in BlockCalls : Stores(voxels'[Len(voxels')], c)
        /\ gwRuns' = gwRuns + 1 =>
             /\ Len(voxels') = Len(voxels) + Len(BeforeThrow(gwBody.body))
             /\ \A k \in 1..Len(BeforeThrow(gwBody.body)) :
                  Stores(voxels'[Len(voxels) + k], gwBody.body[k])
Doubled == { i \in 1..Len(voxels) :
               \E j \in 1..Len(voxels) : j # i /\ SamePlace(voxels[i], voxels[j]) }
C22_BothCounted ==
    pc = "running" =>
        /\ meshes = Len(voxels)
        /\ \A i \in Doubled :
             /\ \E k \in 1..Len(listSummary) :
                  listSummary[k] = [label |-> Label(voxels[i].type),
                                    count |-> Tally(voxels[i].type,
                                                    HowMany(voxels, voxels[i].type))]
             /\ \E g \in 1..Len(listLayers) :
                  /\ listLayers[g].y = voxels[i].y
                  /\ \E k \in 1..Len(listLayers[g].items) :
                       listLayers[g].items[k]
                         = [label |-> Label(voxels[i].type),
                            count |-> Tally(voxels[i].type,
                                            HowManyAt(voxels, voxels[i].y, voxels[i].type))]
Rendering == animating > 0
C23_Built ==
    /\ Rendering =>
         /\ pc = "running"
         /\ animating = 1
         /\ voxels # <<>>
         /\ placedByText = 0 => IsFallbackStructure(voxels)
         /\ meshes = Len(voxels)
         /\ Len(meshMats) = Len(voxels)
         /\ Len(listSummary) = Cardinality(TypesOf(voxels))
         /\ \A t \in TypesOf(voxels) : \E k \in 1..Len(listSummary) :
              listSummary[k] = [label |-> Label(t), count |-> Tally(t, HowMany(voxels, t))]
         /\ { listLayers[g].y : g \in 1..Len(listLayers) } = YsOf(voxels)
         /\ \A g \in 1..Len(listLayers) : \A t \in TypesOf(voxels) :
              HowManyAt(voxels, listLayers[g].y, t) > 0 =>
                  \E k \in 1..Len(listLayers[g].items) :
                      listLayers[g].items[k]
                        = [label |-> Label(t),
                           count |-> Tally(t, HowManyAt(voxels, listLayers[g].y, t))]
    /\ pc = "failed" => ~Rendering
    /\ pc \in {"start", "aiCode", "fallback", "build"} => ~Rendering
C23_Step ==
    /\ animating' # animating => (pc = "build" /\ pc' = "running" /\ voxels' = voxels)
    /\ Rendering => UNCHANGED <<voxels, meshes, meshMats, listSummary, listLayers>>
C23_NoPartialFrame == [](C23_Built) /\ [][C23_Step]_vars
C23_Witness ==
    /\ Rendering
    /\ placedByText = 6
    /\ meshes = 6
    /\ Len(listSummary) = 3
    /\ Len(listLayers) = 5

\* C24: generateVoxelScene builds its document only when the stream has
\* ended.  While the call is under way the host's document is the one shown
\* before; the document stored at the end holds the fragments of the stream
\* joined in the order of their arrival, none left out and none arriving
\* later, without the fence markers (a fence with its javascript tag, and a
\* bare fence, also where a chunk boundary falls inside the marker).
RECURSIVE Joined(_)
Joined(parts) == IF parts = <<>> THEN <<>> ELSE Head(parts) \o Joined(Tail(parts))
KeptAt(t) == { i \in 1..Len(t) :
                 /\ t[i] # Fence
                 /\ ~(t[i] = "javascript" /\ i > 1 /\ t[i - 1] = Fence) }
RECURSIVE Pick(_, _, _)
Pick(t, S, i) ==
    IF i > Len(t) THEN <<>>
    ELSE (IF i \in S THEN <<t[i]>> ELSE <<>>) \o Pick(t, S, i + 1)
WithoutFences(t) == Pick(t, KeptAt(t), 1)
C24_WhileStreaming ==
    /\ gen.aiCode = Joined(gen.parts)
    /\ Len(gen.parts) = gen.chunks
    /\ gen.pc \in {"opening", "streaming", "resolved", "rejected"} => host.voxelCode = gen.shown
C24_Step ==
    /\ host'.voxelCode # host.voxelCode =>
         /\ gen.pc = "resolved"
         /\ host'.voxelCode = [null |-> FALSE, code |-> WithoutFences(Joined(gen.parts))]
    /\ (gen.pc # "resolved" /\ gen'.pc = "resolved") =>
         (gen.pc = "streaming" /\ gen'.parts = gen.parts)
    /\ gen.pc = "resolved" => gen'.parts = gen.parts
    /\ (gen.pc = "streaming" /\ gen'.pc = "streaming" /\ gen' # gen) =>
         (Len(gen'.parts) = Len(gen.parts) + 1
          /\ SubSeq(gen'.parts, 1, Len(gen.parts)) = gen.parts)
C24_WholeStream == [](C24_WhileStreaming) /\ [][C24_Step]_vars
C24_Witness ==
    /\ gen.pc = "idle"
    /\ gen.parts = << <<Fence>>, <<"javascript">> >>
    /\ host.voxelCode = [null |-> FALSE, code |-> <<>>]
    /\ gen.shown.code = <<"b", "a">>
    /\ Len(frames) = 1

\* C25: the material of every type that contains log (log_oak, cherry_log,
\* log_spruce) has the streaks on its four side faces and the rings on its
\* top and bottom faces; the material of grass has three different textures
\* for top, side and bottom; the material of any other type has one texture
\* on all six faces.
LogFamily(type) == Includes(type, <<"l", "o", "g">>)
Sides == {1, 2, 5, 6}
C25_FaceTextures ==
    \A k \in 1..Len(matFaces) :
        LET type == matCache[k]
            faces == matFaces[k].faces
        IN  IF LogFamily(type)
            THEN /\ \A f \in Sides : faces[f].drawn = "streaks"
                 /\ faces[3].drawn = "rings"
                 /\ faces[4].drawn = "rings"
            ELSE IF type = Grass
            THEN /\ \A f \in Sides : faces[f] = faces[1]
                 /\ Cardinality({faces[1].drawn, faces[3].drawn, faces[4].drawn}) = 3
            ELSE \A f \in 1..6 : faces[f] = faces[1]

\* C26: after an environment message the sun stands where the handler's
\* comment puts it: on the horizon at sunlight 0.0, 0.5 and 1.0 (dawn,
\* sunset, dawn again), at its highest point at 0.25 (noon) and at its lowest
\* at 0.75 (midnight).  Heights are compared to within a hundredth of a block.
OnHorizon(light) == light.pos[2] \in -100..100
AtHighest(light) == light.pos[2] >= Blocks(radius) - 100
AtLowest(light) == light.pos[2] <= Blocks(-radius) + 100
C26_DayCycle ==
    lastEnv.seen =>
        /\ lastEnv.sunlight \in {0, 500, 1000} => OnHorizon(sunLight)
        /\ lastEnv.sunlight = 250 => AtHighest(sunLight)
        /\ lastEnv.sunlight = 750 => AtLowest(sunLight)

\* C27: after an environment message the light-shaft mesh is at the sun's
\* position; it is visible, and its opacity other than zero, only when the
\* sun is lit and above the horizon (height above 0); when visible its
\* opacity is godrays * 0.3, so at most 0.3, when not visible it is 0; it is
\* never visible while the moon is the lit light.
C27_GodRays ==
    (lastEnv.seen /\ godRayMesh.set) =>
        /\ godRayMesh.pos = sunLight.pos
        /\ godRayMesh.visible =>
             /\ sunLight.intensity # 0
             /\ sunLight.pos[2] > 0
             /\ godRayMesh.opacity = lastEnv.godrays * 3
             /\ godRayMesh.opacity <= 300
        /\ godRayMesh.opacity # 0 => godRayMesh.visible
        /\ moonLight.intensity # 0 => ~godRayMesh.visible
C27_Witness ==
    /\ lastEnv.seen
    /\ lastEnv.sunlight = 450
    /\ lastEnv.godrays = 100
    /\ godRayMesh.visible
    /\ godRayMesh.opacity = 300
    /\ godRayMesh.pos = sunLight.pos
    /\ sunLight.intensity = 12

\* C28: after an environment message the sky band agrees with the light that
\* is lit: with the day band the sun is lit, with the night band the moon is
\* lit and the sun dark.
C28_BandMatchesLight ==
    lastEnv.seen =>
        /\ sky.band = "day" => sunLight.intensity # 0
        /\ sky.band = "night" => (moonLight.intensity # 0 /\ sunLight.intensity = 0)

\* C29: when a build, a rebuild or the load of an example has put a new
\* document into the viewer, the document receives an environment message
\* with the host's sunlight and godrays once its listener is installed and
\* with no more input of the user, and no environment message is posted to a
\* document whose listener is not installed yet.  Stated on states: no message
\* was lost, and when nothing is pending any more (no call, no timer, no
\* fetch, no reader) and the script of such a document has run, the last
\* message its listener received carries the values of the host's sliders.
Settled ==
    /\ gen.pc = "idle"
    /\ tasks.timers = <<>>
    /\ tasks.examples = <<>>
    /\ tasks.readers = <<>>
    /\ tasks.images = 0
NewByBuildOrExample ==
    /\ frames # <<>>
    /\ frames[Len(frames)].state = "running"
    /\ tasks.madeBy \in {"handleVoxelize", "handleExampleClick"}
C29_NoneLost == tasks.lost = 0
C29_Received ==
    (Settled /\ NewByBuildOrExample) =>
        frames[Len(frames)].env = [seen |-> TRUE, sunlight |-> host.sunlight,
                                   godrays |-> host.godRays]
C29_EnvironmentReceived == C29_NoneLost /\ C29_Received

\* C30: whatever the order of the user's actions and of the results of the
\* pending calls, fetches and readers, the document in the viewer was
\* generated from (or, for an example, belongs to) the image the host holds
\* as imageData: a result that arrives after imageData has changed is not
\* stored as voxelCode.
C30_Stored ==
    (gen.pc = "resolved" /\ host'.voxelCode # host.voxelCode) => gen.image = host.imageData
C30_Shown == Mounted(host) => host.codeOf = host.imageData
C30_ShownFromSelected == [](C30_Shown) /\ [][C30_Stored]_vars

====
